---- MODULE Spec2Model ----
(***************************************************************************)
(* TracePulse: the event correlation and hypothesis pipeline               *)
(* (packages/tracepulse) modelled as a state machine, with the dependency  *)
(* graph functions of lib/systemMap.ts as operators.                       *)
(***************************************************************************)
EXTENDS Integers, Sequences, FiniteSets, TLC

(***************************************************************************)
(* Bounds of the model.                                                    *)
(***************************************************************************)
\* longest depends_on list of a declared service
MaxDeps == 2

(***************************************************************************)
(* JavaScript values.  An optional string is either the marker Undefined   *)
(* or a string; `x || y` takes y when x is falsy.                          *)
(***************************************************************************)
Undefined == "<undefined>"

Falsy(x) == x = Undefined \/ x = ""

Or(x, y) == IF Falsy(x) THEN y ELSE x

\* all sequences over S of length at most n
SeqsUpTo(S, n) == UNION {[1..k -> S] : k \in 0..n}

Range(s) == {s[i] : i \in 1..Len(s)}

\* Array.prototype.includes
Includes(s, x) == \E i \in 1..Len(s) : s[i] = x

\* a copy that keeps every occurrence
KeepDuplicates(s) == s

RECURSIVE Unique(_)
\* [...new Set(s)]: the elements of s in order of first occurrence
Unique(s) ==
  IF s = <<>> THEN <<>>
  ELSE LET front == Unique(SubSeq(s, 1, Len(s) - 1))
           last == s[Len(s)]
       IN IF Includes(front, last) THEN front ELSE Append(front, last)

(***************************************************************************)
(* The system map (lib/systemMap.ts, types/index.ts).                      *)
(*                                                                         *)
(* A SystemMap is a function from the declared service names to their      *)
(* entries.  yaml.load's result is cast to SystemMap without validation of *)
(* the entries, so an entry may be null (a key with no value), an object   *)
(* without depends_on, or an object with a depends_on list.  A depends_on  *)
(* list may name services that are not declared.  Object.entries visits    *)
(* the declared names in document order, here the order of KeyOrder.       *)
(***************************************************************************)
ServiceOrder == <<"A", "B", "C">>

ServiceIds == Range(ServiceOrder)

\* document order of every service name a map of the model declares
KeyOrder == ServiceOrder \o <<"TracePulse", "DebugQueue">>

NullService == [isNull |-> TRUE, hasDependsOn |-> FALSE, depends_on |-> <<>>]

NoDependsOn == [isNull |-> FALSE, hasDependsOn |-> FALSE, depends_on |-> <<>>]

DependsOn(deps) == [isNull |-> FALSE, hasDependsOn |-> TRUE, depends_on |-> deps]

\* the entries a document can give a declared service
SystemMapService ==
  {NullService, NoDependsOn} \cup {DependsOn(d) : d \in SeqsUpTo(ServiceIds, MaxDeps)}

\* every system map over the service names, each name declared or not
SystemMap == UNION {[D -> SystemMapService] : D \in SUBSET ServiceIds}

\* the maps whose entries are all objects (none is null)
WellFormed(systemMap) == \A n \in DOMAIN systemMap : ~systemMap[n].isNull

\* Object.entries(systemMap.services): declared names in document order
Entries(systemMap) == SelectSeq(KeyOrder, LAMBDA n : n \in DOMAIN systemMap)

RECURSIVE findServiceDependenciesRec(_, _, _)
RECURSIVE dependenciesLoop(_, _, _, _, _)
\* The for loop of findServiceDependencies over service.depends_on from index
\* i on: `dependencies` is the accumulated array, `visited` the shared set.
dependenciesLoop(deps, i, systemMap, dependencies, visited) ==
  IF i > Len(deps)
  THEN [dependencies |-> dependencies, visited |-> visited, lookups |-> <<>>]
  ELSE LET r == findServiceDependenciesRec(deps[i], systemMap, visited)
           rest == dependenciesLoop(deps, i + 1, systemMap,
                                    dependencies \o r.dependencies, r.visited)
       IN [rest EXCEPT !.lookups = r.lookups \o @]

\* findServiceDependencies with its `visited` parameter: the returned array,
\* the visited set as the call leaves it (the set is passed by reference), and
\* the names whose entry systemMap.services[serviceName] the call and the calls
\* below it read, in the order of the reads.
findServiceDependenciesRec(serviceName, systemMap, visited) ==
  IF serviceName \in visited
  THEN [dependencies |-> <<>>, visited |-> visited, lookups |-> <<>>]
  ELSE LET seen == visited \cup {serviceName}
       IN IF \/ serviceName \notin DOMAIN systemMap
             \/ systemMap[serviceName].isNull
             \/ ~systemMap[serviceName].hasDependsOn
          THEN [dependencies |-> <<>>, visited |-> seen, lookups |-> <<serviceName>>]
          ELSE LET deps == systemMap[serviceName].depends_on
                   r == dependenciesLoop(deps, 1, systemMap, deps, seen)
               IN [dependencies |-> Unique(r.dependencies), visited |-> r.visited,
                   lookups |-> <<serviceName>> \o r.lookups]

\* findServiceDependencies(serviceName, systemMap) with the default visited set
findServiceDependencies(serviceName, systemMap) ==
  findServiceDependenciesRec(serviceName, systemMap, {}).dependencies

\* findDependents reads service.depends_on of every entry: a null entry
\* raises a TypeError
findDependentsThrows(systemMap) == ~WellFormed(systemMap)

\* findDependents: the declared names whose depends_on includes serviceName
findDependents(serviceName, systemMap) ==
  SelectSeq(Entries(systemMap),
            LAMBDA n : /\ systemMap[n].hasDependsOn
                       /\ Includes(systemMap[n].depends_on, serviceName))

RECURSIVE addNewDependents(_, _, _, _)
\* the inner for loop of analyzeImpact over deps from index i on
addNewDependents(deps, i, allDependents, queue) ==
  IF i > Len(deps) THEN [allDependents |-> allDependents, queue |-> queue]
  ELSE IF Includes(allDependents, deps[i])
       THEN addNewDependents(deps, i + 1, allDependents, queue)
       ELSE addNewDependents(deps, i + 1, Append(allDependents, deps[i]),
                             Append(queue, deps[i]))

\* a loop that stops at the direct dependents
directDependentsOnly(systemMap, allDependents, queue) == allDependents

RECURSIVE transitiveDependents(_, _, _)
\* the while loop of analyzeImpact: allDependents is the Set in insertion order
transitiveDependents(systemMap, allDependents, queue) ==
  IF queue = <<>> THEN allDependents
  ELSE LET current == Head(queue)
           deps == findDependents(current, systemMap)
           r == addNewDependents(deps, 1, allDependents, Tail(queue))
       IN transitiveDependents(systemMap, r.allDependents, r.queue)

RECURSIVE dependentLookups(_, _, _)
\* the names the while loop of analyzeImpact hands to findDependents, in order
dependentLookups(systemMap, allDependents, queue) ==
  IF queue = <<>> THEN <<>>
  ELSE LET current == Head(queue)
           deps == findDependents(current, systemMap)
           r == addNewDependents(deps, 1, allDependents, Tail(queue))
       IN <<current>> \o dependentLookups(systemMap, r.allDependents, r.queue)

\* next to the three lists: whether the call raised, and the names whose
\* dependents (findDependents) and whose depends_on (findServiceDependencies)
\* the call looked up, in order
NoImpact ==
  [threw |-> FALSE, directDependents |-> <<>>, allDependents |-> <<>>,
   dependencies |-> <<>>, dependentLookups |-> <<>>, dependencyLookups |-> <<>>]

\* analyzeImpact: `threw` when findDependents raised
analyzeImpact(affectedService, systemMap) ==
  IF findDependentsThrows(systemMap)
  THEN [NoImpact EXCEPT !.threw = TRUE]
  ELSE LET directDependents == findDependents(affectedService, systemMap)
       IN [threw |-> FALSE,
           directDependents |-> directDependents,
           allDependents |-> transitiveDependents(systemMap, Unique(directDependents),
                                                  directDependents),
           dependencies |-> findServiceDependencies(affectedService, systemMap),
           dependentLookups |->
             <<affectedService>>
               \o dependentLookups(systemMap, Unique(directDependents), directDependents),
           dependencyLookups |->
             findServiceDependenciesRec(affectedService, systemMap, {}).lookups]

(***************************************************************************)
(* getSystemMap and loadSystemMap (lib/systemMap.ts).  The value Redis     *)
(* holds under system_map:current and the state of the system map file are *)
(* read from the environment at the time of the call.                      *)
(***************************************************************************)
getDefaultSystemMap ==
  [n \in {"TracePulse", "DebugQueue"} |->
     IF n = "TracePulse" THEN DependsOn(<<"Redis", "GitHub", "Slack", "OpenAI">>)
     ELSE DependsOn(<<"TracePulse">>)]

\* A depends_on [B], B depends_on [C], C {}
ChainMap ==
  [n \in {"A", "B", "C"} |->
     IF n = "A" THEN DependsOn(<<"B">>)
     ELSE IF n = "B" THEN DependsOn(<<"C">>) ELSE NoDependsOn]

\* A depends_on [B], B depends_on [A]
CycleMap ==
  [n \in {"A", "B"} |-> IF n = "A" THEN DependsOn(<<"B">>) ELSE DependsOn(<<"A">>)]

\* a document in which the key C has no value: yaml.load gives C: null
NullEntryMap ==
  [n \in {"A", "C"} |-> IF n = "A" THEN DependsOn(<<"C">>) ELSE NullService]

\* the documents the system map file holds in the pipeline's runs
DeclaredMaps == {ChainMap, CycleMap, NullEntryMap}

\* what getCached returns: null (miss, expired or Redis error) or a map
NoCache == [hit |-> FALSE, map |-> getDefaultSystemMap]

CacheValues == {NoCache} \cup {[hit |-> TRUE, map |-> m] : m \in DeclaredMaps}

\* the file: missing, unreadable or unparseable, without a services map, or valid
FileStates ==
  {[kind |-> k, map |-> getDefaultSystemMap] : k \in {"missing", "unreadable", "no_services"}}
    \cup {[kind |-> "valid", map |-> m] : m \in DeclaredMaps}

loadSystemMap(file) ==
  IF file.kind = "valid" THEN file.map ELSE getDefaultSystemMap

getSystemMap(cached, file) ==
  IF cached.hit THEN cached.map ELSE loadSystemMap(file)

(***************************************************************************)
(* Events (types/index.ts, WebhookEventSchema).  The fields the pipeline   *)
(* reads: eventType, correlationId, service, details.service, level and    *)
(* priority; every field but eventType is optional.                        *)
(***************************************************************************)
Event(type, corr, service, detailsService, level, priority) ==
  [eventType |-> type, correlationId |-> corr, service |-> service,
   detailsService |-> detailsService, level |-> level, priority |-> priority]

\* the events a webhook request is made of
EventPool ==
  { Event("PAYMENT_FAILED", "c1", "A", "C", "critical", "high"),
    Event("PAYMENT_STARTED", "c1", "B", Undefined, "info", "low"),
    Event("PAYMENT_TIMEOUT", "c1", "B", Undefined, "error", "medium"),
    Event("SESSION_DROP", Undefined, Undefined, "B", "error", Undefined),
    Event("CACHE_SLOW", "", "A", Undefined, "warn", "medium"),
    Event("QUEUE_FULL", "c2", "", Undefined, "info", "high") }

\* a filter that also lets warnings through
isCriticalOrWarn(e) ==
  e.priority = "high" \/ e.level = "error" \/ e.level = "critical" \/ e.level = "warn"

\* the filter of processCorrelatedEvents
isCritical(e) ==
  e.priority = "high" \/ e.level = "error" \/ e.level = "critical"

RECURSIVE groupEventsVerbatim(_, _, _)
\* a grouping loop that keys every event by its correlation id as it is,
\* without the "uncorrelated" key
groupEventsVerbatim(batch, i, map) ==
  IF i > Len(batch) THEN map
  ELSE LET correlationId == batch[i].correlationId
           known == \E k \in 1..Len(map) : map[k].correlationId = correlationId
           withKey == IF known THEN map
                      ELSE Append(map, [correlationId |-> correlationId, events |-> <<>>])
           pushed == [k \in 1..Len(withKey) |->
                        IF withKey[k].correlationId = correlationId
                        THEN [withKey[k] EXCEPT !.events = Append(@, i)]
                        ELSE withKey[k]]
       IN groupEventsVerbatim(batch, i + 1, pushed)

RECURSIVE groupEventsNewestFirst(_, _, _)
\* a grouping loop that puts each event in front of its group (unshift)
groupEventsNewestFirst(batch, i, map) ==
  IF i > Len(batch) THEN map
  ELSE LET correlationId == Or(batch[i].correlationId, "uncorrelated")
           known == \E k \in 1..Len(map) : map[k].correlationId = correlationId
           withKey == IF known THEN map
                      ELSE Append(map, [correlationId |-> correlationId, events |-> <<>>])
           pushed == [k \in 1..Len(withKey) |->
                        IF withKey[k].correlationId = correlationId
                        THEN [withKey[k] EXCEPT !.events = <<i>> \o @]
                        ELSE withKey[k]]
       IN groupEventsNewestFirst(batch, i + 1, pushed)

RECURSIVE groupEvents(_, _, _)
\* The grouping loop of processEvents from batch position i on.  The Map is a
\* sequence of entries in insertion order; a group holds batch positions.
groupEvents(batch, i, map) ==
  IF i > Len(batch) THEN map
  ELSE LET correlationId == Or(batch[i].correlationId, "uncorrelated")
           known == \E k \in 1..Len(map) : map[k].correlationId = correlationId
           withKey == IF known THEN map
                      ELSE Append(map, [correlationId |-> correlationId, events |-> <<>>])
           pushed == [k \in 1..Len(withKey) |->
                        IF withKey[k].correlationId = correlationId
                        THEN [withKey[k] EXCEPT !.events = Append(@, i)]
                        ELSE withKey[k]]
       IN groupEvents(batch, i + 1, pushed)

(***************************************************************************)
(* The hypothesis generator's output and its parsing (services/ai.ts).     *)
(* A number the generator may leave out is a record: present or not, and   *)
(* its value; a list it may leave out likewise.                            *)
(***************************************************************************)
Missing == [present |-> FALSE, value |-> 0]

Num(n) == [present |-> TRUE, value |-> n]

\* h.confidence || d: the default for a missing number and for 0
NumOr(c, d) == IF ~c.present \/ c.value = 0 THEN d ELSE c.value

NoList == [present |-> FALSE, items |-> <<>>]

List(items) == [present |-> TRUE, items |-> items]

\* h.evidence || []
ListOr(l) == IF l.present THEN l.items ELSE <<>>

RawEvidence(type, source, detail, confidence) ==
  [type |-> type, source |-> source, detail |-> detail, confidence |-> confidence]

RawHypothesis(title, description, confidence, evidence, actions, related) ==
  [title |-> title, description |-> description, confidence |-> confidence,
   evidence |-> evidence, suggestedActions |-> actions, relatedServices |-> related]

\* hypotheses as the generator writes them
RawDeploy ==
  RawHypothesis("Bad deploy", "A recent deploy broke the service", Num(90),
                List(<<RawEvidence("diff", "GitHub", "commit abc1234", Num(80))>>),
                List(<<"Roll back">>), List(<<"A">>))

RawTimeout ==
  RawHypothesis("Upstream timeout", "", Num(30),
                List(<<RawEvidence(Undefined, Undefined, Undefined, Missing)>>),
                NoList, NoList)

\* an entry with every optional field left out
RawBare == RawHypothesis(Undefined, Undefined, Missing, NoList, NoList, NoList)

\* what JSON.parse of the generator's message gives when it parses to an object
GeneratorResult(hasHypotheses, hypotheses) ==
  [hasHypotheses |-> hasHypotheses, hypotheses |-> hypotheses]

\* the generator's well-formed answers in the pipeline's runs
GeneratorResults ==
  { GeneratorResult(FALSE, <<>>),
    GeneratorResult(TRUE, <<>>),
    GeneratorResult(TRUE, <<RawDeploy>>),
    GeneratorResult(TRUE, <<RawTimeout, RawDeploy>>),
    GeneratorResult(TRUE, <<RawBare, RawTimeout>>) }

\* longest hypotheses list of a generator answer handed to the parsing directly
MaxHyps == 3

\* the confidence a generator writes: left out, 0, within 0-100, or beyond it
RawConfidences == {Missing, Num(0), Num(40), Num(90), Num(150)}

\* an entry with every field written, its evidence item as confident as itself
RawFull(confidence) ==
  RawHypothesis("Bad deploy", "A recent deploy broke the service", confidence,
                List(<<RawEvidence("diff", "GitHub", "commit abc1234", confidence)>>),
                List(<<"Roll back">>), List(<<"A">>))

\* an entry with nothing but, at most, its confidence
RawOnlyConfidence(confidence) ==
  RawHypothesis(Undefined, Undefined, confidence, NoList, NoList, NoList)

RawHypotheses ==
  {RawFull(c) : c \in RawConfidences} \cup {RawOnlyConfidence(c) : c \in RawConfidences}

\* every answer whose hypotheses field lists up to MaxHyps such entries
RawResults ==
  {GeneratorResult(FALSE, <<>>)}
    \cup {GeneratorResult(TRUE, hs) : hs \in SeqsUpTo(RawHypotheses, MaxHyps)}

\* why a generator call raises inside generateHypotheses' try block
GeneratorFailures == {"missing_credentials", "network_error", "unparseable_response"}

\* the values Date.now() takes
Timestamps == {1700}

parseEvidence(e) ==
  [type |-> Or(e.type, "log"), source |-> Or(e.source, "unknown"),
   detail |-> Or(e.detail, ""), confidence |-> NumOr(e.confidence, 50)]

\* a callback that builds the id from the time alone
parseHypothesisTimeId(h, index, now) ==
  [id |-> <<"hyp", now, 0>>,
   title |-> Or(h.title, "Unknown Issue"),
   description |-> Or(h.description, ""),
   confidence |-> NumOr(h.confidence, 50),
   evidence |-> [k \in 1..Len(ListOr(h.evidence)) |-> parseEvidence(ListOr(h.evidence)[k])],
   suggestedActions |-> ListOr(h.suggestedActions),
   relatedServices |-> ListOr(h.relatedServices)]

\* the callback of hypotheses.map in generateHypotheses; index counts from 0
parseHypothesis(h, index, now) ==
  [id |-> <<"hyp", now, index>>,
   title |-> Or(h.title, "Unknown Issue"),
   description |-> Or(h.description, ""),
   confidence |-> NumOr(h.confidence, 50),
   evidence |-> [k \in 1..Len(ListOr(h.evidence)) |-> parseEvidence(ListOr(h.evidence)[k])],
   suggestedActions |-> ListOr(h.suggestedActions),
   relatedServices |-> ListOr(h.relatedServices)]

\* a parsing that drops the entries that come without a confidence
parseHypothesesStrict(result, now) ==
  LET hypotheses == IF result.hasHypotheses
                    THEN SelectSeq(result.hypotheses, LAMBDA h : h.confidence.present)
                    ELSE <<>>
  IN [k \in 1..Len(hypotheses) |-> parseHypothesis(hypotheses[k], k - 1, now)]

\* generateHypotheses' try block after the generator answered with `result`
parseHypotheses(result, now) ==
  LET hypotheses == IF result.hasHypotheses THEN result.hypotheses ELSE <<>>
  IN [k \in 1..Len(hypotheses) |-> parseHypothesis(hypotheses[k], k - 1, now)]

\* a catch that returns no hypothesis at all
getFallbackHypothesesNone(now) == <<>>

getFallbackHypotheses(now) ==
  << [id |-> <<"hyp", now, 0>>,
      title |-> "Service Dependency Failure",
      description |-> "The failure appears to be related to a service dependency issue based on the error pattern.",
      confidence |-> 60,
      evidence |-> << [type |-> "log", source |-> "Event Analysis",
                       detail |-> "Critical error detected in service communication",
                       confidence |-> 70] >>,
      suggestedActions |-> << "Check service health endpoints",
                              "Review recent deployments",
                              "Examine service logs for connection errors" >>,
      relatedServices |-> <<>>] >>

\* an insertion that puts x in front of the hypotheses as confident as x
insertBeforeTies(sorted, x) ==
  LET k == Cardinality({i \in 1..Len(sorted) : sorted[i].confidence > x.confidence})
  IN SubSeq(sorted, 1, k) \o <<x>> \o SubSeq(sorted, k + 1, Len(sorted))

\* x inserted behind every hypothesis of `sorted` that the comparator
\* b.confidence - a.confidence does not put after it
insertByConfidence(sorted, x) ==
  LET k == Cardinality({i \in 1..Len(sorted) : sorted[i].confidence >= x.confidence})
  IN SubSeq(sorted, 1, k) \o <<x>> \o SubSeq(sorted, k + 1, Len(sorted))

RECURSIVE sortByConfidence(_)
\* hypotheses.sort((a, b) => b.confidence - a.confidence): a stable sort
sortByConfidence(hs) ==
  IF hs = <<>> THEN <<>>
  ELSE insertByConfidence(sortByConfidence(SubSeq(hs, 1, Len(hs) - 1)), hs[Len(hs)])

\* generateSummary's sentence, as the values it is made of; `hypotheses` is
\* the array after the sort
generateSummary(event, hypotheses) ==
  [eventType |-> event.eventType,
   service |-> Or(event.service, "unknown service"),
   title |-> IF hypotheses = <<>> THEN "Unknown" ELSE Or(hypotheses[1].title, "Unknown"),
   confidence |-> IF hypotheses = <<>> THEN 0 ELSE hypotheses[1].confidence,
   count |-> Len(hypotheses)]

\* a derivation that asks the details map first
affectedServiceDetailsFirst(event) ==
  Or(Or(event.detailsService, event.service), "Unknown")

\* analyzeEvent's affected service
affectedServiceOf(event) == Or(Or(event.service, event.detailsService), "Unknown")

\* buildSystemContext's text, as the values it is made of; relatedEvents are
\* batch positions
buildSystemContext(event, relatedEvents, impact, diffs) ==
  [eventType |-> event.eventType,
   service |-> Or(event.service, "Unknown"),
   relatedEvents |-> relatedEvents,
   dependencies |-> impact.dependencies,
   directDependents |-> impact.directDependents,
   allDependents |-> impact.allDependents,
   recentDiffs |-> IF Len(diffs) > 0 THEN diffs ELSE <<"No recent changes detected">>]

NoContext ==
  [eventType |-> "", service |-> "", relatedEvents |-> <<>>, dependencies |-> <<>>,
   directDependents |-> <<>>, allDependents |-> <<>>, recentDiffs |-> <<>>]

NoSummary == [eventType |-> "", service |-> "", title |-> "", confidence |-> 0, count |-> 0]

NoReport ==
  [present |-> FALSE, correlationId |-> "", eventType |-> "", hypotheses |-> <<>>,
   affectedServices |-> <<>>, summary |-> NoSummary]

\* the report literal of analyzeEvent; generateSummary sorts the hypotheses
\* array the report holds
buildReport(event, hypotheses, service, impact) ==
  [present |-> TRUE,
   correlationId |-> Or(event.correlationId, "unknown"),
   eventType |-> event.eventType,
   hypotheses |-> sortByConfidence(hypotheses),
   affectedServices |-> <<service>> \o impact.allDependents,
   summary |-> generateSummary(event, sortByConfidence(hypotheses))]

\* The ways through getRecentDiffs: the cache holds a list; the cache misses
\* and the code host answers; getCached swallowed a Redis error, returned null
\* and the code host answers; GITHUB_OWNER or GITHUB_REPO is missing;
\* GITHUB_TOKEN is missing and getOctokit raises; a call of the code host raises.
RecentDiffOutcomes ==
  {"cached", "fetched", "cache_error", "config_missing", "token_missing", "api_error"}

\* the ways that end in the catch block or at the configuration check
RecentDiffFailures == {"config_missing", "token_missing", "api_error"}

DiffLists == {<<>>, <<"Commit abc1234 by dev">>}

\* a lookup that gives up when the cache cannot be read
getRecentDiffsCacheOrNothing(outcome, diffs) ==
  IF outcome \in {"cached", "fetched"} THEN diffs ELSE <<>>

\* `diffs` is the list the cache or the code host holds for the service
getRecentDiffs(outcome, diffs) ==
  IF outcome \in RecentDiffFailures THEN <<>> ELSE diffs

(***************************************************************************)
(* State.                                                                  *)
(***************************************************************************)
VARIABLES
  \* one webhook request and the processEvents invocation it starts
  pc,                \* "idle", "processing", "done"
  httpStatus,        \* the webhook's response: 0 before the request
  events,            \* the batch handed to processEvents
  correlatedEvents,  \* the Map of processEvents: entries in insertion order
  batchSnapshot,     \* the map the batch's first getSystemMap call resolved to
  current,           \* position in the Map of the group being processed
  step,              \* where processCorrelatedEvents / analyzeEvent stands
  \* per group, in Map order
  groupState,        \* the group's state in the pipeline's state machine
  returned,          \* processCorrelatedEvents returned for the group
  raised,            \* an error was raised while the group was processed
  impactCalls,       \* calls of analyzeImpact made for the group
  generatorCalls,    \* calls of the generator made for the group
  generatorOutcome,  \* "none", "threw" or "answered"
  reportsBuilt,      \* reports analyzeEvent returned for the group
  \* locals of processCorrelatedEvents and analyzeEvent for the current group
  criticalEvents, systemMap, affectedService, impact, recentDiffs,
  systemContext, hypotheses, report,
  \* a graph function called directly
  argMap,            \* the system map handed to it
  argService,        \* the service name handed to it
  called,            \* "none", or the function that was called last
  retImpact,         \* what analyzeImpact returned
  retDeps,           \* what findServiceDependencies returned
  argResult,         \* the generator's answer handed to generateHypotheses' parsing
  argOutcome,        \* the way through getRecentDiffs a direct call takes
  argDiffs,          \* the list the cache or the code host holds for that call
  \* two webhook requests whose processEvents invocations interleave
  invocations,       \* per request: its batch, its Map and its place in the loop
  \* one DebugQueueClient and the endpoint it posts to
  config,            \* the client's config: enabled and batchSize
  queue,             \* the client's queue: events by the number of their send() call
  flushTimer,        \* TRUE while the interval of startFlushTimer is set
  inFlight,          \* the batches of the flush() calls awaiting their POST
  delivered,         \* the events of the POSTs answered ok, in order of arrival
  sendCalls,         \* calls of send() made so far
  destroyed,         \* destroy() was called
  queueAtDestroy,    \* the queue destroy() found
  \* a function called directly on inputs of its own
  reqApiKey,         \* the X-API-Key header of a webhook request
  reqBody,           \* the body of a webhook request
  logMethod,         \* the method of DebugQueue that is called
  logOptions,        \* the options handed to it
  cacheState,        \* what Redis does with system_map:current in a direct call
  fileState,         \* what the system map file is in that call
  retLoad            \* how getSystemMap or loadSystemMap ended

requestVars == <<pc, httpStatus, events, correlatedEvents, batchSnapshot>>

groupVars ==
  <<groupState, returned, raised, impactCalls, generatorCalls, generatorOutcome, reportsBuilt>>

localVars ==
  <<criticalEvents, systemMap, affectedService, impact, recentDiffs, systemContext,
    hypotheses, report>>

graphVars == <<argMap, argService, called, retImpact, retDeps>>

clientVars ==
  <<config, queue, flushTimer, inFlight, delivered, sendCalls, destroyed, queueAtDestroy>>

inputVars == <<reqApiKey, reqBody, logMethod, logOptions, cacheState, fileState, retLoad>>

callVars ==
  <<graphVars, argResult, argOutcome, argDiffs,
                 invocations, clientVars, inputVars>>

vars == <<requestVars, current, step, groupVars, localVars, callVars>>

\* longest batch of a webhook request
MaxBatch == 3

EmptyMap == [n \in {} |-> NoDependsOn]

Groups == 1..Len(correlatedEvents)

\* a sequence giving every group of `map` the value v
PerGroup(map, v) == [g \in 1..Len(map) |-> v]

\* no DebugQueueClient has been constructed
NoClient ==
  /\ config = [batchSize |-> 0, flushInterval |-> 0, enabled |-> FALSE]
  /\ queue = <<>>
  /\ flushTimer = FALSE
  /\ inFlight = <<>>
  /\ delivered = <<>>
  /\ sendCalls = 0
  /\ destroyed = FALSE
  /\ queueAtDestroy = <<>>

\* a body that is no JSON text and carries nothing
NoBody == [kind |-> "malformed", events |-> <<>>]

\* options = {}
NoOptions == [correlationId |-> Undefined, level |-> Undefined, priority |-> Undefined]

\* no method of DebugQueue is called
NoLogCall ==
  /\ logMethod = "log"
  /\ logOptions = NoOptions

\* getSystemMap or loadSystemMap has not returned
NotLoaded ==
  [returned |-> FALSE, threw |-> FALSE, source |-> "none", map |-> getDefaultSystemMap,
   setCached |-> <<>>, stored |-> <<>>]

\* neither is called directly
NoMapCall ==
  /\ cacheState = [get |-> "miss", set |-> "ok", map |-> getDefaultSystemMap]
  /\ fileState = [kind |-> "missing", map |-> getDefaultSystemMap]
  /\ retLoad = NotLoaded

\* no function is called on inputs of its own
NoInput ==
  /\ reqApiKey = Undefined
  /\ reqBody = NoBody
  /\ NoLogCall
  /\ NoMapCall

\* no getSystemMap call of the batch has resolved yet
NoSnapshot == [taken |-> FALSE, map |-> EmptyMap]

\* the two requests of an interleaving
Invocations == {1, 2}

\* processEvents was not called for the request
NotStarted == [started |-> FALSE, events |-> <<>>, correlatedEvents |-> <<>>, current |-> 0]

NoInvocations == [k \in Invocations |-> NotStarted]

NoLocals ==
  /\ criticalEvents = <<>>
  /\ systemMap = EmptyMap
  /\ affectedService = ""
  /\ impact = NoImpact
  /\ recentDiffs = <<>>
  /\ systemContext = NoContext
  /\ hypotheses = <<>>
  /\ report = NoReport

NoRequest ==
  /\ pc = "idle"
  /\ httpStatus = 0
  /\ events = <<>>
  /\ correlatedEvents = <<>>
  /\ batchSnapshot = NoSnapshot
  /\ current = 0
  /\ step = "none"
  /\ groupState = <<>>
  /\ returned = <<>>
  /\ raised = <<>>
  /\ impactCalls = <<>>
  /\ generatorCalls = <<>>
  /\ generatorOutcome = <<>>
  /\ reportsBuilt = <<>>
  /\ NoLocals

NoGraphCall ==
  /\ argMap = EmptyMap
  /\ argService = ""
  /\ called = "none"
  /\ retImpact = NoImpact
  /\ retDeps = <<>>
  /\ argResult = GeneratorResult(FALSE, <<>>)
  /\ argOutcome = "fetched"
  /\ argDiffs = <<>>
  /\ invocations = NoInvocations
  /\ NoClient
  /\ NoInput

Init == NoRequest /\ NoGraphCall

(***************************************************************************)
(* The webhook (lib/auth.ts: authMiddleware, POST /webhook/event).         *)
(***************************************************************************)
validApiKeys == {"internal-dev-key", "dev-api-key"}

ApiKeys == {Undefined, "", "wrong-key"} \cup validApiKeys

\* a middleware that lets every request with a key pass
authMiddlewareAnyKey(apiKey) == IF Falsy(apiKey) THEN 401 ELSE 0

\* authMiddleware's answer to a request with this X-API-Key: 0 lets it pass
authMiddleware(apiKey) ==
  IF Falsy(apiKey) THEN 401
  ELSE IF apiKey \notin validApiKeys THEN 401 ELSE 0

\* a request authMiddleware answers 401
WebhookUnauthorized ==
  /\ pc = "idle"
  /\ \E apiKey \in ApiKeys :
       /\ authMiddleware(apiKey) # 0
       /\ httpStatus' = authMiddleware(apiKey)
  /\ pc' = "done"
  /\ UNCHANGED <<events, correlatedEvents, batchSnapshot, current, step, groupVars,
                 localVars, callVars>>

\* an authenticated request whose body fails WebhookPayloadSchema
WebhookInvalidPayload ==
  /\ pc = "idle"
  /\ \E apiKey \in ApiKeys : authMiddleware(apiKey) = 0
  /\ httpStatus' = 400
  /\ pc' = "done"
  /\ UNCHANGED <<events, correlatedEvents, batchSnapshot, current, step, groupVars,
                 localVars, callVars>>

\* An authenticated request with a valid body: the handler calls processEvents,
\* which groups the batch, and answers 200 without awaiting it.
WebhookAccepted ==
  /\ pc = "idle"
  /\ \E apiKey \in ApiKeys : authMiddleware(apiKey) = 0
  /\ \E batch \in SeqsUpTo(EventPool, MaxBatch) :
       LET map == groupEvents(batch, 1, <<>>)
       IN /\ events' = batch
          /\ correlatedEvents' = map
          /\ batchSnapshot' = NoSnapshot
          /\ groupState' = PerGroup(map, "RECEIVED")
          /\ returned' = PerGroup(map, FALSE)
          /\ raised' = PerGroup(map, FALSE)
          /\ impactCalls' = PerGroup(map, 0)
          /\ generatorCalls' = PerGroup(map, 0)
          /\ generatorOutcome' = PerGroup(map, "none")
          /\ reportsBuilt' = PerGroup(map, 0)
          /\ current' = 1
          /\ step' = IF map = <<>> THEN "none" ELSE "filter"
          /\ pc' = IF map = <<>> THEN "done" ELSE "processing"
  /\ httpStatus' = 200
  /\ UNCHANGED <<localVars, callVars>>

(***************************************************************************)
(* processCorrelatedEvents and analyzeEvent for the current group, one     *)
(* action per synchronous stretch between two awaits or state changes.     *)
(***************************************************************************)
Running(at) == pc = "processing" /\ step = at

group == correlatedEvents[current]

\* the newest critical event of the group
triggerNewest == events[criticalEvents[Len(criticalEvents)]]

\* criticalEvents[0], the event handed to analyzeEvent
trigger == events[criticalEvents[1]]

\* events.filter(...) of processCorrelatedEvents
FilterGroup ==
  /\ Running("filter")
  /\ criticalEvents' = SelectSeq(group.events, LAMBDA i : isCritical(events[i]))
  /\ groupState' = [groupState EXCEPT ![current] = "FILTERED"]
  /\ step' = "checkCritical"
  /\ UNCHANGED <<requestVars, current, returned, raised, impactCalls, generatorCalls,
                 generatorOutcome, reportsBuilt, systemMap, affectedService, impact,
                 recentDiffs, systemContext, hypotheses, report, callVars>>

\* criticalEvents.length === 0: logged, and processCorrelatedEvents returns
SkipGroup ==
  /\ Running("checkCritical")
  /\ Len(criticalEvents) = 0
  /\ groupState' = [groupState EXCEPT ![current] = "SKIPPED"]
  /\ step' = "return"
  /\ UNCHANGED <<requestVars, current, returned, raised, impactCalls, generatorCalls,
                 generatorOutcome, reportsBuilt, localVars, callVars>>

\* await getSystemMap()
GetSystemMap ==
  /\ Running("checkCritical")
  /\ Len(criticalEvents) > 0
  /\ \E cached \in CacheValues, file \in FileStates :
       /\ systemMap' = getSystemMap(cached, file)
       /\ batchSnapshot' = IF batchSnapshot.taken THEN batchSnapshot
                           ELSE [taken |-> TRUE, map |-> getSystemMap(cached, file)]
  /\ step' = "analyzeImpact"
  /\ UNCHANGED <<pc, httpStatus, events, correlatedEvents, current, groupVars, criticalEvents, affectedService,
                 impact, recentDiffs, systemContext, hypotheses, report, callVars>>

\* analyzeEvent up to the call of getRecentDiffs, when analyzeImpact returns
ImpactComputed ==
  /\ Running("analyzeImpact")
  /\ LET service == affectedServiceOf(trigger)
         result == analyzeImpact(service, systemMap)
     IN /\ ~result.threw
        /\ affectedService' = service
        /\ impact' = result
  /\ impactCalls' = [impactCalls EXCEPT ![current] = @ + 1]
  /\ groupState' = [groupState EXCEPT ![current] = "IMPACT_COMPUTED"]
  /\ step' = "getRecentDiffs"
  /\ UNCHANGED <<requestVars, current, returned, raised, generatorCalls, generatorOutcome,
                 reportsBuilt, criticalEvents, systemMap, recentDiffs, systemContext,
                 hypotheses, report, callVars>>

\* analyzeImpact raises and nothing catches the error: processEvents rejects
\* and the groups behind the current one are never processed
ImpactThrowsUncaught ==
  /\ Running("analyzeImpact")
  /\ analyzeImpact(affectedServiceOf(trigger), systemMap).threw
  /\ affectedService' = affectedServiceOf(trigger)
  /\ impactCalls' = [impactCalls EXCEPT ![current] = @ + 1]
  /\ raised' = [raised EXCEPT ![current] = TRUE]
  /\ returned' = [returned EXCEPT ![current] = TRUE]
  /\ step' = "none"
  /\ pc' = "done"
  /\ UNCHANGED <<httpStatus, events, correlatedEvents, batchSnapshot, current, groupState,
                 generatorCalls, generatorOutcome, reportsBuilt, criticalEvents,
                 systemMap, impact, recentDiffs, systemContext, hypotheses, report,
                 callVars>>

\* analyzeImpact raises: analyzeEvent's catch logs AI_ANALYSIS_ERROR and returns
\* null, and processCorrelatedEvents logs no report
ImpactThrows ==
  /\ Running("analyzeImpact")
  /\ analyzeImpact(affectedServiceOf(trigger), systemMap).threw
  /\ affectedService' = affectedServiceOf(trigger)
  /\ impactCalls' = [impactCalls EXCEPT ![current] = @ + 1]
  /\ step' = "return"
  /\ raised' = [raised EXCEPT ![current] = TRUE]
  /\ UNCHANGED <<requestVars, current, groupState, returned, generatorCalls,
                 generatorOutcome, reportsBuilt, criticalEvents, systemMap, impact,
                 recentDiffs, systemContext, hypotheses, report, callVars>>

\* await getRecentDiffs(affectedService)
RecentDiffsReturn ==
  /\ Running("getRecentDiffs")
  /\ \E outcome \in RecentDiffOutcomes, diffs \in DiffLists :
       recentDiffs' = getRecentDiffs(outcome, diffs)
  /\ step' = "buildSystemContext"
  /\ UNCHANGED <<requestVars, current, groupVars, criticalEvents, systemMap,
                 affectedService, impact, systemContext, hypotheses, report, callVars>>

\* buildSystemContext, then generateHypotheses is called with the bundle
AssembleEvidence ==
  /\ Running("buildSystemContext")
  /\ systemContext' = buildSystemContext(trigger, group.events, impact, recentDiffs)
  /\ groupState' = [groupState EXCEPT ![current] = "EVIDENCE_ASSEMBLED"]
  /\ generatorCalls' = [generatorCalls EXCEPT ![current] = @ + 1]
  /\ step' = "generateHypotheses"
  /\ UNCHANGED <<requestVars, current, returned, raised, impactCalls, generatorOutcome,
                 reportsBuilt, criticalEvents, systemMap, affectedService, impact,
                 recentDiffs, hypotheses, report, callVars>>

\* the generator answers with a JSON object, which generateHypotheses parses
GeneratorAnswers ==
  /\ Running("generateHypotheses")
  /\ \E result \in GeneratorResults, now \in Timestamps :
       hypotheses' = parseHypotheses(result, now)
  /\ generatorOutcome' = [generatorOutcome EXCEPT ![current] = "answered"]
  /\ groupState' = [groupState EXCEPT ![current] = "HYPOTHESES_GENERATED"]
  /\ step' = "buildReport"
  /\ UNCHANGED <<requestVars, current, returned, raised, impactCalls, generatorCalls,
                 reportsBuilt, criticalEvents, systemMap, affectedService, impact,
                 recentDiffs, systemContext, report, callVars>>

\* getOpenAI, the API call or JSON.parse raises: the catch of generateHypotheses
\* returns the fallback
GeneratorFails ==
  /\ Running("generateHypotheses")
  /\ \E failure \in GeneratorFailures, now \in Timestamps :
       hypotheses' = getFallbackHypotheses(now)
  /\ generatorOutcome' = [generatorOutcome EXCEPT ![current] = "threw"]
  /\ groupState' = [groupState EXCEPT ![current] = "HYPOTHESES_GENERATED"]
  /\ step' = "buildReport"
  /\ UNCHANGED <<requestVars, current, returned, raised, impactCalls, generatorCalls,
                 reportsBuilt, criticalEvents, systemMap, affectedService, impact,
                 recentDiffs, systemContext, report, callVars>>

\* the report literal of analyzeEvent and its return; REPORT_GENERATED is logged
BuildReport ==
  /\ Running("buildReport")
  /\ report' = buildReport(trigger, hypotheses, affectedService, impact)
  /\ hypotheses' = sortByConfidence(hypotheses)
  /\ reportsBuilt' = [reportsBuilt EXCEPT ![current] = @ + 1]
  /\ groupState' = [groupState EXCEPT ![current] = "REPORT_BUILT"]
  /\ step' = "return"
  /\ UNCHANGED <<requestVars, current, returned, raised, impactCalls, generatorCalls,
                 generatorOutcome, criticalEvents, systemMap, affectedService, impact,
                 recentDiffs, systemContext, callVars>>

\* processCorrelatedEvents returns and the loop of processEvents takes the next
\* group, or processEvents ends
GroupReturns ==
  /\ Running("return")
  /\ returned' = [returned EXCEPT ![current] = TRUE]
  /\ current' = current + 1
  /\ step' = IF current = Len(correlatedEvents) THEN "none" ELSE "filter"
  /\ pc' = IF current = Len(correlatedEvents) THEN "done" ELSE "processing"
  /\ criticalEvents' = <<>>
  /\ systemMap' = EmptyMap
  /\ affectedService' = ""
  /\ impact' = NoImpact
  /\ recentDiffs' = <<>>
  /\ systemContext' = NoContext
  /\ hypotheses' = <<>>
  /\ report' = NoReport
  /\ UNCHANGED <<httpStatus, events, correlatedEvents, batchSnapshot, groupState, raised,
                 impactCalls, generatorCalls, generatorOutcome, reportsBuilt, callVars>>

\* the steps that rest on the program's own scheduling
PipelineStep ==
  \/ FilterGroup
  \/ SkipGroup
  \/ ImpactComputed
  \/ ImpactThrows
  \/ AssembleEvidence
  \/ BuildReport
  \/ GroupReturns

\* the steps that end an await on a collaborator other than the generator
CollaboratorStep == GetSystemMap \/ RecentDiffsReturn

Next ==
  \/ WebhookUnauthorized
  \/ WebhookInvalidPayload
  \/ WebhookAccepted
  \/ FilterGroup
  \/ SkipGroup
  \/ GetSystemMap
  \/ ImpactComputed
  \/ ImpactThrows
  \/ RecentDiffsReturn
  \/ AssembleEvidence
  \/ GeneratorAnswers
  \/ GeneratorFails
  \/ BuildReport
  \/ GroupReturns

Spec == Init /\ [][Next]_vars

\* The event loop runs every continuation that is ready, and Redis, the file
\* system and the code host answer; nothing bounds the generator's answer.
FairSpec == Spec /\ WF_vars(PipelineStep) /\ WF_vars(CollaboratorStep)

(***************************************************************************)
(* The graph functions called directly, on every map and service name.     *)
(***************************************************************************)
GraphInit ==
  /\ NoRequest
  /\ argMap \in SystemMap
  /\ argService \in ServiceIds
  /\ called = "none"
  /\ retImpact = NoImpact
  /\ retDeps = <<>>
  /\ argResult = GeneratorResult(FALSE, <<>>)
  /\ argOutcome = "fetched"
  /\ argDiffs = <<>>
  /\ invocations = NoInvocations
  /\ NoClient
  /\ NoInput

CallAnalyzeImpact ==
  /\ called = "none"
  /\ called' = "impact"
  /\ retImpact' = analyzeImpact(argService, argMap)
  /\ UNCHANGED <<requestVars, current, step, groupVars, localVars, argMap, argService,
                 retDeps, argResult, argOutcome, argDiffs,
                 invocations, clientVars, inputVars>>

CallFindServiceDependencies ==
  /\ called = "none"
  /\ called' = "dependencies"
  /\ retDeps' = findServiceDependencies(argService, argMap)
  /\ UNCHANGED <<requestVars, current, step, groupVars, localVars, argMap, argService,
                 retImpact, argResult, argOutcome, argDiffs,
                 invocations, clientVars, inputVars>>

GraphNext == CallAnalyzeImpact \/ CallFindServiceDependencies

GraphSpec == GraphInit /\ [][GraphNext]_vars

(***************************************************************************)
(* generateHypotheses' parsing and the report's ranking called directly,   *)
(* on every answer of RawResults.                                          *)
(***************************************************************************)
ParseInit ==
  /\ NoRequest
  /\ argMap = EmptyMap
  /\ argService = ""
  /\ called = "none"
  /\ retImpact = NoImpact
  /\ retDeps = <<>>
  /\ argResult \in RawResults
  /\ argOutcome = "fetched"
  /\ argDiffs = <<>>
  /\ invocations = NoInvocations
  /\ NoClient
  /\ NoInput

\* generateHypotheses from JSON.parse on, when the generator answered argResult
CallGenerateHypotheses ==
  /\ called \in {"none", "buildSystemContext"}
  /\ \E now \in Timestamps : hypotheses' = parseHypotheses(argResult, now)
  /\ called' = "generateHypotheses"
  /\ UNCHANGED <<requestVars, current, step, groupVars, criticalEvents, systemMap,
                 affectedService, impact, recentDiffs, systemContext, report, argMap,
                 argService, retImpact, retDeps, argResult, argOutcome, argDiffs,
                 invocations, clientVars, inputVars>>

\* generateHypotheses when the generator call raised
CallGenerateHypothesesFails ==
  /\ called \in {"none", "buildSystemContext"}
  /\ \E now \in Timestamps : hypotheses' = getFallbackHypotheses(now)
  /\ called' = "getFallbackHypotheses"
  /\ UNCHANGED <<requestVars, current, step, groupVars, criticalEvents, systemMap,
                 affectedService, impact, recentDiffs, systemContext, report, argMap,
                 argService, retImpact, retDeps, argResult, argOutcome, argDiffs,
                 invocations, clientVars, inputVars>>

\* the report literal of analyzeEvent, for the event analyzeEvent was called
\* with, or for an event of the pool when the call starts behind the generator
CallBuildReport ==
  /\ called \in {"generateHypotheses", "getFallbackHypotheses"}
  /\ \E event \in (IF criticalEvents = <<>> THEN EventPool ELSE {trigger}) :
       /\ affectedService' = affectedServiceOf(event)
       /\ report' = buildReport(event, hypotheses, affectedServiceOf(event), NoImpact)
  /\ hypotheses' = sortByConfidence(hypotheses)
  /\ called' = "analyzeEvent"
  /\ UNCHANGED <<requestVars, current, step, groupVars, criticalEvents, systemMap,
                 impact, recentDiffs, systemContext, argMap, argService, retImpact,
                 retDeps, argResult, argOutcome, argDiffs,
                 invocations, clientVars, inputVars>>

ParseNext == CallGenerateHypotheses \/ CallGenerateHypothesesFails \/ CallBuildReport

ParseSpec == ParseInit /\ [][ParseNext]_vars

(***************************************************************************)
(* analyzeEvent called directly for one critical event, from its call of   *)
(* getRecentDiffs on, with every way through getRecentDiffs.               *)
(***************************************************************************)
DiffInit ==
  /\ pc = "idle"
  /\ httpStatus = 0
  /\ events \in {<<e>> : e \in {x \in EventPool : isCritical(x)}}
  /\ correlatedEvents = <<>>
  /\ batchSnapshot = NoSnapshot
  /\ current = 0
  /\ step = "none"
  /\ groupState = <<>>
  /\ returned = <<>>
  /\ raised = <<>>
  /\ impactCalls = <<>>
  /\ generatorCalls = <<>>
  /\ generatorOutcome = <<>>
  /\ reportsBuilt = <<>>
  /\ criticalEvents = <<1>>
  /\ systemMap = EmptyMap
  /\ affectedService = affectedServiceOf(events[1])
  /\ impact = NoImpact
  /\ recentDiffs = <<>>
  /\ systemContext = NoContext
  /\ hypotheses = <<>>
  /\ report = NoReport
  /\ argMap = EmptyMap
  /\ argService = ""
  /\ called = "analyzeImpact"
  /\ retImpact = NoImpact
  /\ retDeps = <<>>
  /\ argResult \in GeneratorResults
  /\ argOutcome \in RecentDiffOutcomes
  /\ argDiffs \in DiffLists
  /\ invocations = NoInvocations
  /\ NoClient
  /\ NoInput

\* await getRecentDiffs(affectedService)
CallGetRecentDiffs ==
  /\ called = "analyzeImpact"
  /\ recentDiffs' = getRecentDiffs(argOutcome, argDiffs)
  /\ called' = "getRecentDiffs"
  /\ UNCHANGED <<requestVars, current, step, groupVars, criticalEvents, systemMap,
                 affectedService, impact, systemContext, hypotheses, report, argMap,
                 argService, retImpact, retDeps, argResult, argOutcome, argDiffs,
                 invocations, clientVars, inputVars>>

\* buildSystemContext(event, impact, recentDiffs, context)
CallBuildSystemContext ==
  /\ called = "getRecentDiffs"
  /\ systemContext' = buildSystemContext(trigger, criticalEvents, impact, recentDiffs)
  /\ called' = "buildSystemContext"
  /\ UNCHANGED <<requestVars, current, step, groupVars, criticalEvents, systemMap,
                 affectedService, impact, recentDiffs, hypotheses, report, argMap,
                 argService, retImpact, retDeps, argResult, argOutcome, argDiffs,
                 invocations, clientVars, inputVars>>

DiffNext ==
  \/ CallGetRecentDiffs
  \/ CallBuildSystemContext
  \/ CallGenerateHypotheses
  \/ CallGenerateHypothesesFails
  \/ CallBuildReport

DiffSpec == DiffInit /\ [][DiffNext]_vars

(***************************************************************************)
(* Two webhook requests.  The handler calls processEvents without awaiting *)
(* it, so the second request's invocation can start while the first one is *)
(* in its loop; an invocation yields at each await of its loop.            *)
(***************************************************************************)
\* an invocation that goes on with the Map of the other request
moduleLevelMap(k) == invocations[CHOOSE j \in Invocations : j # k].correlatedEvents

\* const correlatedEvents = new Map() of invocation k
newMap(k) == <<>>

\* the events of the two requests: without correlation id, with an empty one
\* and with an id, critical or not
InterleavedEventPool ==
  {e \in EventPool : e.eventType \in {"SESSION_DROP", "CACHE_SLOW", "PAYMENT_FAILED"}}

InterleavedInit ==
  /\ NoRequest
  /\ argMap = EmptyMap
  /\ argService = ""
  /\ called = "none"
  /\ retImpact = NoImpact
  /\ retDeps = <<>>
  /\ argResult = GeneratorResult(FALSE, <<>>)
  /\ argOutcome = "fetched"
  /\ argDiffs = <<>>
  /\ invocations = NoInvocations
  /\ NoClient
  /\ NoInput

\* request k is accepted: processEvents runs up to the first await of its loop
StartInvocation(k) ==
  /\ ~invocations[k].started
  /\ \E batch \in SeqsUpTo(InterleavedEventPool, MaxBatch) :
       invocations' =
         [invocations EXCEPT ![k] = [started |-> TRUE,
                                     events |-> batch,
                                     correlatedEvents |-> groupEvents(batch, 1, newMap(k)),
                                     current |-> 1]]
  /\ UNCHANGED <<requestVars, current, step, groupVars, localVars, graphVars, argResult,
                 argOutcome, argDiffs, clientVars, inputVars>>

\* await processCorrelatedEvents(...) of invocation k resolves or rejects, and
\* its loop takes the next entry of its Map
GroupProcessed(k) ==
  /\ invocations[k].started
  /\ invocations[k].current <= Len(invocations[k].correlatedEvents)
  /\ invocations' = [invocations EXCEPT ![k].current = @ + 1]
  /\ UNCHANGED <<requestVars, current, step, groupVars, localVars, graphVars, argResult,
                 argOutcome, argDiffs, clientVars, inputVars>>

InterleavedNext == \E k \in Invocations : StartInvocation(k) \/ GroupProcessed(k)

InterleavedSpec == InterleavedInit /\ [][InterleavedNext]_vars

(***************************************************************************)
(* One request to POST /webhook/event, on every key and body: the          *)
(* middleware server.ts puts before the route, then the handler.           *)
(***************************************************************************)
\* most events in the body of such a request
MaxBodyEvents == 2

\* an event of a body: the fields of Event, and whether it has details
BodyEvent(event, hasDetails) == [event |-> event, hasDetails |-> hasDetails]

BodyEventPool ==
  { BodyEvent(Event("PAYMENT_FAILED", "c1", "A", "C", "critical", "high"), TRUE),
    BodyEvent(Event("CACHE_SLOW", "", "A", Undefined, "warn", "medium"), TRUE),
    BodyEvent(Event("SESSION_DROP", Undefined, Undefined, "B", "error", Undefined), TRUE),
    BodyEvent(Event(Undefined, "c1", "A", Undefined, "error", "high"), TRUE),
    BodyEvent(Event("PAYMENT_FAILED", "c1", "A", Undefined, "fatal", "high"), TRUE),
    BodyEvent(Event("PAYMENT_FAILED", "c1", "A", Undefined, "critical", "urgent"), TRUE),
    BodyEvent(Event("PAYMENT_FAILED", "c1", "A", Undefined, "critical", "high"), FALSE) }

\* the bodies of a request: no JSON text, JSON without an events array, or
\* JSON whose events field is an array
Bodies ==
  {NoBody, [kind |-> "no_events", events |-> <<>>]}
    \cup {[kind |-> "payload", events |-> es] : es \in SeqsUpTo(BodyEventPool, MaxBodyEvents)}

WebhookEventSchema(e) ==
  /\ e.event.eventType # Undefined
  /\ e.event.level \in {Undefined, "debug", "info", "warn", "error", "critical"}
  /\ e.event.priority \in {Undefined, "low", "medium", "high"}
  /\ e.hasDetails

WebhookPayloadSchema(body) ==
  /\ body.kind = "payload"
  /\ \A i \in 1..Len(body.events) : WebhookEventSchema(body.events[i])

\* the status the handler of POST /event answers a body with
webhookPost(body) ==
  IF body.kind = "malformed" THEN 500
  ELSE IF ~WebhookPayloadSchema(body) THEN 400 ELSE 200

WebhookInit ==
  /\ NoRequest
  /\ argMap = EmptyMap
  /\ argService = ""
  /\ called = "none"
  /\ retImpact = NoImpact
  /\ retDeps = <<>>
  /\ argResult = GeneratorResult(FALSE, <<>>)
  /\ argOutcome = "fetched"
  /\ argDiffs = <<>>
  /\ invocations = NoInvocations
  /\ NoClient
  /\ NoLogCall
  /\ NoMapCall
  /\ reqApiKey \in ApiKeys
  /\ reqBody \in Bodies

\* app.use('/webhook/*', authMiddleware): the request is answered 401, or
\* next() hands it to the route
CallAuthMiddleware ==
  /\ called = "none"
  /\ called' = "authMiddleware"
  /\ httpStatus' = authMiddleware(reqApiKey)
  /\ UNCHANGED <<pc, events, correlatedEvents, batchSnapshot, current, step, groupVars,
                 localVars, argMap, argService, retImpact, retDeps, argResult, argOutcome,
                 argDiffs, invocations, clientVars, inputVars>>

\* webhook.post('/event'): the body is read and validated; a valid payload's
\* events are handed to processEvents, which groups them, and 200 is answered
CallWebhookPost ==
  /\ called = "authMiddleware"
  /\ httpStatus = 0
  /\ httpStatus' = webhookPost(reqBody)
  /\ IF webhookPost(reqBody) = 200
       THEN LET batch == [i \in 1..Len(reqBody.events) |-> reqBody.events[i].event]
            IN  /\ called' = "processEvents"
                /\ events' = batch
                /\ correlatedEvents' = groupEvents(batch, 1, <<>>)
       ELSE /\ called' = "webhook.post"
            /\ UNCHANGED <<events, correlatedEvents>>
  /\ UNCHANGED <<pc, batchSnapshot, current, step, groupVars, localVars, argMap,
                 argService, retImpact, retDeps, argResult, argOutcome, argDiffs,
                 invocations, clientVars, inputVars>>

WebhookNext == CallAuthMiddleware \/ CallWebhookPost

WebhookSpec == WebhookInit /\ [][WebhookNext]_vars

(***************************************************************************)
(* getSystemMap and loadSystemMap called directly, statement by statement, *)
(* on every state of the cache and of the file.                            *)
(***************************************************************************)
\* Redis on get: no value, an error, or a value; on set: stored, or an error
LoadCacheStates ==
  [get : {"miss", "error"}, set : {"ok", "error"}, map : {getDefaultSystemMap}]
    \cup [get : {"hit"}, set : {"ok", "error"}, map : DeclaredMaps]

\* the file: missing; readFile raises; yaml.load raises; yaml.load gives
\* undefined (an empty document); the document has no services key; its
\* services is a scalar; or it has a services map
LoadFileKinds ==
  {"missing", "unreadable", "unparseable", "empty", "no_services", "services_scalar",
   "valid"}

LoadFileStates == [kind : LoadFileKinds, map : DeclaredMaps]

\* a validation that lets every document through
validStructureAlways(file) == TRUE

\* !(!map.services || typeof map.services !== 'object')
validStructure(file) == file.kind \notin {"no_services", "services_scalar"}

\* setCached(key, value, ttl): what Redis stores; an error is logged, not raised
setCached(cache, value) == IF cache.set = "ok" THEN <<value>> ELSE <<>>

Loaded(source, map, written, stored) ==
  [returned |-> TRUE, threw |-> FALSE, source |-> source, map |-> map, setCached |-> written,
   stored |-> stored]

\* the try block of loadSystemMap: what it returns, or that it raised
loadSystemMapTry(cache, file) ==
  IF file.kind = "missing" THEN Loaded("default", getDefaultSystemMap, <<>>, <<>>)
  ELSE IF file.kind \in {"unreadable", "unparseable", "empty"} \/ ~validStructure(file)
    THEN [NotLoaded EXCEPT !.threw = TRUE]
  ELSE Loaded("file", file.map, <<file.map>>, setCached(cache, file.map))

\* loadSystemMap: the try block, and the catch block's default map
loadSystemMapCall(cache, file) ==
  IF loadSystemMapTry(cache, file).threw
    THEN Loaded("default", getDefaultSystemMap, <<>>, <<>>)
    ELSE loadSystemMapTry(cache, file)

\* getCached: the value, or null after a miss or an error it logged
getCached(cache) == IF cache.get = "hit" THEN [hit |-> TRUE, map |-> cache.map] ELSE NoCache

getSystemMapCall(cache, file) ==
  IF getCached(cache).hit THEN Loaded("cache", getCached(cache).map, <<>>, <<>>)
  ELSE loadSystemMapCall(cache, file)

MapInit ==
  /\ NoRequest
  /\ argMap = EmptyMap
  /\ argService = ""
  /\ called = "none"
  /\ retImpact = NoImpact
  /\ retDeps = <<>>
  /\ argResult = GeneratorResult(FALSE, <<>>)
  /\ argOutcome = "fetched"
  /\ argDiffs = <<>>
  /\ invocations = NoInvocations
  /\ NoClient
  /\ reqApiKey = Undefined
  /\ reqBody = NoBody
  /\ NoLogCall
  /\ cacheState \in LoadCacheStates
  /\ fileState \in LoadFileStates
  /\ retLoad = NotLoaded

mapRest ==
  <<requestVars, current, step, groupVars, localVars, argMap, argService, retImpact, retDeps,
    argResult, argOutcome, argDiffs, invocations, clientVars, reqApiKey, reqBody, logMethod,
    logOptions, cacheState, fileState>>

CallGetSystemMap ==
  /\ called = "none"
  /\ called' = "getSystemMap"
  /\ retLoad' = getSystemMapCall(cacheState, fileState)
  /\ UNCHANGED mapRest

CallLoadSystemMap ==
  /\ called = "none"
  /\ called' = "loadSystemMap"
  /\ retLoad' = loadSystemMapCall(cacheState, fileState)
  /\ UNCHANGED mapRest

MapNext == CallGetSystemMap \/ CallLoadSystemMap

MapSpec == MapInit /\ [][MapNext]_vars

(***************************************************************************)
(* DebugQueue (packages/debug-queue/src/index.ts): the event each method   *)
(* hands to the client, as send() enriches it, and the critical filter of  *)
(* processCorrelatedEvents on a group that contains it.                    *)
(***************************************************************************)
\* what generateCorrelationId returns
GeneratedCorrelationId == "1700000000000-k3j9x2m1q"

LogOptions ==
  [correlationId : {Undefined, "c1"},
   level : {Undefined, "debug", "info", "warn", "error", "critical"},
   priority : {Undefined, "low", "medium", "high"}]

LogMethods == {"log", "error", "warn", "info", "critical"}

\* { ...options, level, priority }
WithLevelAndPriority(options, level, priority) ==
  [options EXCEPT !.level = level, !.priority = priority]

log(eventType, options) ==
  Event(eventType, Or(options.correlationId, GeneratedCorrelationId), Undefined, Undefined,
        Or(options.level, "info"), Or(options.priority, "medium"))

\* an error() whose options come after its own level and priority
errorOptionsLast(eventType, options) ==
  log(eventType, WithLevelAndPriority(options, Or(options.level, "error"),
                                      Or(options.priority, "high")))

error(eventType, options) ==
  log(eventType, WithLevelAndPriority(options, "error", Or(options.priority, "high")))

warn(eventType, options) == log(eventType, [options EXCEPT !.level = "warn"])

info(eventType, options) == log(eventType, [options EXCEPT !.level = "info"])

critical(eventType, options) ==
  log(eventType, WithLevelAndPriority(options, "critical", "high"))

\* the event send() pushes: the service defaults to the client's
enrichedEvent(event, service) == [event EXCEPT !.service = Or(event.service, service)]

\* the event the method puts in the client's queue
Emitted(method, eventType, options) ==
  enrichedEvent(CASE method = "log" -> log(eventType, options)
                  [] method = "error" -> error(eventType, options)
                  [] method = "warn" -> warn(eventType, options)
                  [] method = "info" -> info(eventType, options)
                  [] method = "critical" -> critical(eventType, options),
                "unknown")

\* the events that share a request with the emitted one
LogInit ==
  /\ pc = "idle"
  /\ httpStatus = 0
  /\ events \in SeqsUpTo(EventPool, 1)
  /\ correlatedEvents = <<>>
  /\ batchSnapshot = NoSnapshot
  /\ current = 0
  /\ step = "none"
  /\ groupState = <<>>
  /\ returned = <<>>
  /\ raised = <<>>
  /\ impactCalls = <<>>
  /\ generatorCalls = <<>>
  /\ generatorOutcome = <<>>
  /\ reportsBuilt = <<>>
  /\ NoLocals
  /\ argMap = EmptyMap
  /\ argService = ""
  /\ called = "none"
  /\ retImpact = NoImpact
  /\ retDeps = <<>>
  /\ argResult = GeneratorResult(FALSE, <<>>)
  /\ argOutcome = "fetched"
  /\ argDiffs = <<>>
  /\ invocations = NoInvocations
  /\ NoClient
  /\ reqApiKey = Undefined
  /\ reqBody = NoBody
  /\ logMethod \in LogMethods
  /\ logOptions \in LogOptions
  /\ NoMapCall

\* the method is called and its event joins the request's events
CallDebugQueue ==
  /\ called = "none"
  /\ called' = "DebugQueue"
  /\ events' = Append(events, Emitted(logMethod, "PAYMENT_FAILED", logOptions))
  /\ UNCHANGED <<pc, httpStatus, correlatedEvents, batchSnapshot, current, step, groupVars,
                 localVars, argMap, argService, retImpact, retDeps, argResult, argOutcome,
                 argDiffs, invocations, clientVars, inputVars>>

\* events.filter(...) of processCorrelatedEvents on a group made of those events
CallFilter ==
  /\ called = "DebugQueue"
  /\ called' = "filter"
  /\ criticalEvents' =
       SelectSeq([i \in 1..Len(events) |-> i], LAMBDA i : isCritical(events[i]))
  /\ UNCHANGED <<requestVars, current, step, groupVars, systemMap, affectedService, impact,
                 recentDiffs, systemContext, hypotheses, report, argMap, argService,
                 retImpact, retDeps, argResult, argOutcome, argDiffs, invocations,
                 clientVars, inputVars>>

LogNext == CallDebugQueue \/ CallFilter

LogSpec == LogInit /\ [][LogNext]_vars

(***************************************************************************)
(* DebugQueueClient (packages/debug-queue/src/client.ts): one client, the  *)
(* calls its owner makes, its interval timer and the answers to its POSTs. *)
(* An event is written as the number of the send() call that brought it;   *)
(* a POST counts as delivered when its response is ok.                     *)
(***************************************************************************)
\* most send() calls made on the client
MaxSends == 3

\* largest batchSize handed to the constructor
MaxBatchSize == 2

DefaultBatchSize == 10

DefaultFlushInterval == 5000

\* the config handed to the constructor: 0 also stands for a field left out
\* (both are falsy to ||), hasEnabled tells whether enabled was given
GivenConfigs ==
  [batchSize : 0..MaxBatchSize, flushInterval : {-1, 0}, hasEnabled : BOOLEAN,
   enabled : BOOLEAN]

NodeEnvs == {"test", "production"}

\* the config the constructor stores
resolveConfig(given, nodeEnv) ==
  [batchSize |-> IF given.batchSize # 0 THEN given.batchSize ELSE DefaultBatchSize,
   flushInterval |->
     IF given.flushInterval # 0 THEN given.flushInterval ELSE DefaultFlushInterval,
   enabled |-> IF given.hasEnabled THEN given.enabled ELSE nodeEnv # "test"]

\* a requeue that drops the failed batch
unshiftNothing(q, batch) == q

\* this.queue.unshift(...events)
unshift(q, batch) == batch \o q

RemoveAt(s, i) == [j \in 1..(Len(s) - 1) |-> IF j < i THEN s[j] ELSE s[j + 1]]

\* flush() up to its await, on the queue q: an empty queue returns at once,
\* otherwise the queue is copied and cleared and the copy is posted
flush(q) ==
  /\ queue' = <<>>
  /\ inFlight' = IF q = <<>> THEN inFlight ELSE Append(inFlight, q)

\* new DebugQueueClient(config)
ClientInit ==
  /\ pc = "idle"
  /\ httpStatus = 0
  /\ events = <<>>
  /\ correlatedEvents = <<>>
  /\ batchSnapshot = NoSnapshot
  /\ current = 0
  /\ step = "none"
  /\ groupState = <<>>
  /\ returned = <<>>
  /\ raised = <<>>
  /\ impactCalls = <<>>
  /\ generatorCalls = <<>>
  /\ generatorOutcome = <<>>
  /\ reportsBuilt = <<>>
  /\ NoLocals
  /\ argMap = EmptyMap
  /\ argService = ""
  /\ called = "none"
  /\ retImpact = NoImpact
  /\ retDeps = <<>>
  /\ argResult = GeneratorResult(FALSE, <<>>)
  /\ argOutcome = "fetched"
  /\ argDiffs = <<>>
  /\ invocations = NoInvocations
  /\ NoInput
  /\ \E given \in GivenConfigs, nodeEnv \in NodeEnvs :
       /\ config = resolveConfig(given, nodeEnv)
       /\ flushTimer = (config.enabled /\ config.flushInterval > 0)
  /\ queue = <<>>
  /\ inFlight = <<>>
  /\ delivered = <<>>
  /\ sendCalls = 0
  /\ destroyed = FALSE
  /\ queueAtDestroy = <<>>

clientRest ==
  <<requestVars, current, step, groupVars, localVars, graphVars, argResult, argOutcome,
    argDiffs, invocations, inputVars>>

\* send(event): nothing on a disabled client; otherwise the event is pushed and,
\* if the queue has reached batchSize, flush() is called
Send ==
  /\ sendCalls < MaxSends
  /\ sendCalls' = sendCalls + 1
  /\ IF ~config.enabled
       THEN UNCHANGED <<queue, inFlight>>
       ELSE LET pushed == Append(queue, sendCalls + 1)
            IN  IF Len(pushed) >= config.batchSize
                  THEN flush(pushed)
                  ELSE queue' = pushed /\ UNCHANGED inFlight
  /\ UNCHANGED <<config, flushTimer, delivered, destroyed, queueAtDestroy, clientRest>>

\* an interval that flushes only a queue that has reached batchSize
TimerTickOnFullQueue ==
  /\ flushTimer
  /\ Len(queue) >= config.batchSize
  /\ flush(queue)
  /\ UNCHANGED <<config, flushTimer, delivered, sendCalls, destroyed, queueAtDestroy,
                 clientRest>>

\* the interval of startFlushTimer fires on a queue that is not empty
TimerTick ==
  /\ flushTimer
  /\ queue # <<>>
  /\ flush(queue)
  /\ UNCHANGED <<config, flushTimer, delivered, sendCalls, destroyed, queueAtDestroy,
                 clientRest>>

\* the owner calls flush() on a queue that is not empty
Flush ==
  /\ queue # <<>>
  /\ flush(queue)
  /\ UNCHANGED <<config, flushTimer, delivered, sendCalls, destroyed, queueAtDestroy,
                 clientRest>>

\* the POST of the i-th flush in flight is answered with response.ok
PostOk(i) ==
  /\ i \in DOMAIN inFlight
  /\ delivered' = delivered \o inFlight[i]
  /\ inFlight' = RemoveAt(inFlight, i)
  /\ UNCHANGED <<config, queue, flushTimer, sendCalls, destroyed, queueAtDestroy,
                 clientRest>>

\* the POST of the i-th flush in flight is answered not ok, or fetch throws
PostFails(i) ==
  /\ i \in DOMAIN inFlight
  /\ queue' = unshift(queue, inFlight[i])
  /\ inFlight' = RemoveAt(inFlight, i)
  /\ UNCHANGED <<config, flushTimer, delivered, sendCalls, destroyed, queueAtDestroy,
                 clientRest>>

\* destroy(): the interval is cleared and flush() is called, not awaited
Destroy ==
  /\ ~destroyed
  /\ destroyed' = TRUE
  /\ queueAtDestroy' = queue
  /\ flushTimer' = FALSE
  /\ flush(queue)
  /\ UNCHANGED <<config, delivered, sendCalls, clientRest>>

PostAnswered == \E i \in DOMAIN inFlight : PostOk(i) \/ PostFails(i)

ClientNext == Send \/ TimerTick \/ Flush \/ PostAnswered \/ Destroy

ClientSpec == ClientInit /\ [][ClientNext]_vars

\* every POST is answered, and a set interval keeps firing
ClientFairSpec == ClientSpec /\ WF_vars(PostAnswered) /\ WF_vars(TimerTick)

PostSucceeds == \E i \in DOMAIN inFlight : PostOk(i)

\* moreover the endpoint does not fail for ever: while POSTs keep being made,
\* one of them is answered ok again and again
ClientRecoveringSpec == ClientFairSpec /\ SF_vars(PostSucceeds)

(***************************************************************************)
(* Properties.                                                             *)
(***************************************************************************)
GroupEvents(g) == correlatedEvents[g].events

\* priority = high or level in {error, critical}
CriticalSignal(e) == e.priority = "high" \/ e.level \in {"error", "critical"}

HasCriticalEvent(g) == \E k \in 1..Len(GroupEvents(g)) : CriticalSignal(events[GroupEvents(g)[k]])

\* C1: the result of analyzeImpact(s, G) holds s in none of its three sets,
\* dependencies, directDependents and allDependents, for every graph G.
C1_ImpactExcludesService ==
  (called = "impact" /\ ~retImpact.threw) =>
    /\ argService \notin Range(retImpact.dependencies)
    /\ argService \notin Range(retImpact.directDependents)
    /\ argService \notin Range(retImpact.allDependents)

\* the graph is the cycle x depends_on [y], y depends_on [x] and nothing else
TwoNodeCycle(graph, x, y) ==
  /\ x # y
  /\ DOMAIN graph = {x, y}
  /\ graph[x] = DependsOn(<<y>>)
  /\ graph[y] = DependsOn(<<x>>)

\* C2: on the two-node cycle A depends_on B, B depends_on A,
\* findServiceDependencies(A) returns exactly {B}.
C2_CycleDependencies ==
  \A other \in ServiceIds :
    (called = "dependencies" /\ TwoNodeCycle(argMap, argService, other)) =>
      Range(retDeps) = {other}

\* the fixed fallback: one hypothesis titled "Service Dependency Failure" of
\* confidence 60, one evidence item of type log and confidence 70, the three
\* fixed actions and no related service
IsFallback(hs) ==
  /\ Len(hs) = 1
  /\ hs[1].title = "Service Dependency Failure"
  /\ hs[1].confidence = 60
  /\ Len(hs[1].evidence) = 1
  /\ hs[1].evidence[1].type = "log"
  /\ hs[1].evidence[1].confidence = 70
  /\ hs[1].suggestedActions = << "Check service health endpoints",
                                 "Review recent deployments",
                                 "Examine service logs for connection errors" >>
  /\ hs[1].relatedServices = <<>>

\* C3: when the generator call fails for a group, the group's processing gives
\* exactly one report, whose hypotheses are exactly the fixed fallback
\* hypothesis, whatever the evidence bundle holds.
C3_FallbackOnGeneratorFailure ==
  \A g \in Groups :
    generatorOutcome[g] = "threw" =>
      /\ (g = current /\ step = "buildReport") => IsFallback(hypotheses)
      /\ (g = current /\ step = "return") =>
           report.present /\ IsFallback(report.hypotheses) /\ reportsBuilt[g] = 1
      /\ returned[g] => reportsBuilt[g] = 1 /\ groupState[g] = "REPORT_BUILT"

\* a group whose generator call failed has its report, built on a bundle that
\* holds recent changes and dependents
C3_Witness ==
  /\ pc = "processing" /\ step = "return"
  /\ generatorOutcome[current] = "threw"
  /\ report.present
  /\ systemContext.recentDiffs # <<"No recent changes detected">>
  /\ systemContext.allDependents # <<>>

\* C4: every report holds at least one hypothesis, whatever the generator
\* returns.
C4_ReportHasHypothesis == report.present => Len(report.hypotheses) >= 1

\* C5: the processing of a group that holds a critical event ends with a
\* report, never without one.
C5_CriticalGroupGetsReport ==
  \A g \in Groups :
    (returned[g] /\ HasCriticalEvent(g)) =>
      reportsBuilt[g] = 1 /\ groupState[g] = "REPORT_BUILT"

\* the positions of the batch
Positions == 1..Len(events)

\* the key processEvents is to give an event
KeyOf(e) == IF e.correlationId \in {Undefined, ""} THEN "uncorrelated" ELSE e.correlationId

\* how often position i occurs in group g
Occurrences(g, i) == Cardinality({k \in 1..Len(GroupEvents(g)) : GroupEvents(g)[k] = i})

\* C6: after grouping, every event is in exactly one group, once; that group
\* is keyed by the event's correlation id when it has a non-empty one and
\* "uncorrelated" otherwise; there is one group per key and no group is empty.
C6_Grouping ==
  pc # "idle" =>
    /\ \A i \in Positions :
         \E g \in Groups :
           /\ Occurrences(g, i) = 1
           /\ correlatedEvents[g].correlationId = KeyOf(events[i])
           /\ \A h \in Groups \ {g} : Occurrences(h, i) = 0
    /\ \A g \in Groups : GroupEvents(g) # <<>> /\ Range(GroupEvents(g)) \subseteq Positions
    /\ \A g, h \in Groups :
         correlatedEvents[g].correlationId = correlatedEvents[h].correlationId => g = h

\* a batch that holds an event without correlation id, one with an empty id
\* and one with an id, grouped into two groups
C6_Witness ==
  /\ pc = "processing"
  /\ Len(correlatedEvents) = 2
  /\ \E i, j, k \in Positions :
       /\ events[i].correlationId = Undefined
       /\ events[j].correlationId = ""
       /\ events[k].correlationId = "c1"

\* C7: a group without critical event is skipped: analyzeImpact and the
\* generator are never called for it and no report is built for it.
C7_SkipWithoutCriticalEvent ==
  \A g \in Groups :
    ~HasCriticalEvent(g) =>
      /\ impactCalls[g] = 0
      /\ generatorCalls[g] = 0
      /\ reportsBuilt[g] = 0
      /\ groupState[g] \in {"RECEIVED", "FILTERED", "SKIPPED"}
      /\ returned[g] => groupState[g] = "SKIPPED"

\* a group of a warning and an info event was skipped, next to a group that
\* got its report
C7_Witness ==
  \E g, h \in Groups :
    /\ returned[g] /\ groupState[g] = "SKIPPED"
    /\ \E k \in 1..Len(GroupEvents(g)) : events[GroupEvents(g)[k]].level = "warn"
    /\ returned[h] /\ groupState[h] = "REPORT_BUILT"

\* C8: an error raised while one group is processed does not abort the batch:
\* when processEvents ends, processCorrelatedEvents has returned for every
\* group, and every group whose own processing raised nothing ended skipped or
\* with its report.
C8_FailureIsolation ==
  /\ pc = "done" => \A g \in Groups : returned[g]
  /\ \A g \in Groups : (returned[g] /\ ~raised[g]) => groupState[g] \in {"SKIPPED", "REPORT_BUILT"}
  /\ \A g \in Groups : (pc = "processing" /\ g > current) => ~returned[g] /\ groupState[g] = "RECEIVED"

\* a batch has ended in which one group raised and a later one got its report
C8_Witness ==
  /\ pc = "done"
  /\ \E g, h \in Groups : g < h /\ raised[g] /\ groupState[h] = "REPORT_BUILT"

\* the generator call made for the current group has not returned
AwaitingGenerator == pc = "processing" /\ step = "generateHypotheses"

\* C9: a generator call that never returns cannot keep the other groups of the
\* batch from reaching the end of their processing.  (While the call is
\* awaited the current group stays the same, so the groups other than the
\* current one are the groups other than the one that waits.)
C9_GeneratorCannotStall ==
  <>[]AwaitingGenerator =>
    <>(AwaitingGenerator /\ \A h \in Groups \ {current} : returned[h])

\* the order of the group states
StateOrder ==
  { <<"RECEIVED", "FILTERED">>, <<"FILTERED", "SKIPPED">>,
    <<"FILTERED", "IMPACT_COMPUTED">>, <<"IMPACT_COMPUTED", "EVIDENCE_ASSEMBLED">>,
    <<"EVIDENCE_ASSEMBLED", "HYPOTHESES_GENERATED">>,
    <<"HYPOTHESES_GENERATED", "REPORT_BUILT">> }

\* C10: a group changes state only along RECEIVED, FILTERED, then SKIPPED or
\* IMPACT_COMPUTED, EVIDENCE_ASSEMBLED, HYPOTHESES_GENERATED, REPORT_BUILT, and
\* its processing ends in SKIPPED or REPORT_BUILT only.
C10_GroupStateMachine ==
  [][\A g \in Groups :
       /\ groupState'[g] # groupState[g] => <<groupState[g], groupState'[g]>> \in StateOrder
       /\ returned'[g] => groupState'[g] \in {"SKIPPED", "REPORT_BUILT"}]_vars

\* analyzeEvent is running for the current group with the map it was handed
Analysing ==
  /\ pc = "processing"
  /\ step \in {"analyzeImpact", "getRecentDiffs", "buildSystemContext",
               "generateHypotheses", "buildReport"}

\* C11: the graph is read-only for a batch: every group of one processEvents
\* invocation is analysed against the same map, the one the batch's first
\* group was analysed against, also when the cached map expires or the file
\* is reloaded in between; and while one group is analysed its map stays as it is.
C11_OneSnapshotPerBatch ==
  [][/\ Analysing' => systemMap' = batchSnapshot'.map
     /\ (Analysing /\ Analysing') => systemMap' = systemMap]_vars

\* C12: for a service name that is not declared in the map, analyzeImpact
\* raises no error and returns empty dependencies, directDependents and
\* allDependents, also when declared services name it in their depends_on.
C12_UnknownServiceEmptyImpact ==
  (called = "impact" /\ WellFormed(argMap) /\ argService \notin DOMAIN argMap) =>
    /\ ~retImpact.threw
    /\ retImpact.dependencies = <<>>
    /\ retImpact.directDependents = <<>>
    /\ retImpact.allDependents = <<>>

NoDuplicates(s) == \A i, j \in 1..Len(s) : s[i] = s[j] => i = j

\* C13: the affected-services list of every report starts with the primary
\* service, the one the impact was computed for, and holds no service twice,
\* also when the primary service lies on a dependency cycle.
C13_AffectedServicesPrimaryFirstNoDuplicates ==
  report.present =>
    /\ Len(report.affectedServices) >= 1
    /\ report.affectedServices[1] = affectedService
    /\ NoDuplicates(report.affectedServices)

\* `after` holds the hypotheses of `before`, the more confident first and the
\* equally confident in the order they have in `before`
IsStableRanking(before, after) ==
  /\ Len(after) = Len(before)
  /\ \E p \in [1..Len(before) -> 1..Len(before)] :
       /\ \A i \in 1..Len(after) : after[i] = before[p[i]]
       /\ \A i, j \in 1..Len(after) :
            i < j => \/ after[i].confidence > after[j].confidence
                     \/ after[i].confidence = after[j].confidence /\ p[i] < p[j]

\* C14: when a report is built, its hypotheses are the generated ones ordered
\* by confidence, highest first, and hypotheses of equal confidence keep the
\* order in which the generator returned them.
C14_HypothesesRankedStable ==
  [][(~report.present /\ report'.present) =>
       IsStableRanking(hypotheses, report'.hypotheses)]_vars

\* a report whose ranking moved a hypothesis forward and kept a tie in place
C14_Witness ==
  /\ report.present
  /\ \E i, j \in 1..Len(report.hypotheses) :
       /\ i < j
       /\ report.hypotheses[i].id[3] > report.hypotheses[j].id[3]
  /\ \E i, j \in 1..Len(report.hypotheses) :
       /\ i < j
       /\ report.hypotheses[i].confidence = report.hypotheses[j].confidence
       /\ report.hypotheses[i].title # report.hypotheses[j].title

\* the services n depends on directly: the depends_on entries of its declaration
DependsOnOf(graph, n) ==
  IF n \in DOMAIN graph /\ graph[n].hasDependsOn THEN Range(graph[n].depends_on) ELSE {}

\* the declared services whose depends_on names s
DirectDependentsOf(graph, s) == {n \in DOMAIN graph : s \in DependsOnOf(graph, n)}

\* T is the least set of services that contains `base` and, with a service n,
\* every service of next[n]
IsLeastClosed(T, base, next) ==
  LET Closed(U) == base \subseteq U /\ \A n \in U : next[n] \subseteq U
  IN /\ Closed(T)
     /\ \A U \in SUBSET ServiceIds : Closed(U) => T \subseteq U

\* C15: analyzeImpact(s, G) returns as directDependents exactly the services
\* whose depends_on names s, as allDependents the least set that contains them
\* and is closed under taking direct dependents, and as dependencies the
\* transitive closure of depends_on from s; for A -> B -> C, impact(B) is
\* dependencies {C}, directDependents {A}, allDependents {A}.
C15_ImpactSets ==
  (called = "impact" /\ ~retImpact.threw) =>
    /\ Range(retImpact.directDependents) = DirectDependentsOf(argMap, argService)
    /\ IsLeastClosed(Range(retImpact.allDependents),
                     DirectDependentsOf(argMap, argService),
                     [n \in ServiceIds |-> DirectDependentsOf(argMap, n)])
    /\ IsLeastClosed(Range(retImpact.dependencies),
                     DependsOnOf(argMap, argService),
                     [n \in ServiceIds |-> DependsOnOf(argMap, n)])
    /\ (argMap = ChainMap /\ argService = "B") =>
         /\ Range(retImpact.dependencies) = {"C"}
         /\ Range(retImpact.directDependents) = {"A"}
         /\ Range(retImpact.allDependents) = {"A"}

\* the impact of B in the chain A -> B -> C
C15_Witness ==
  /\ called = "impact"
  /\ argMap = ChainMap
  /\ argService = "B"
  /\ retImpact.dependencies = <<"C">>
  /\ retImpact.directDependents = <<"A">>
  /\ retImpact.allDependents = <<"A">>

\* C16: on every finite graph, with cycles, self-dependencies and undeclared
\* depends_on entries, findServiceDependencies and analyzeImpact return, and a
\* call looks up no node's depends_on twice and no node's dependents twice.
C16_EachNodeExpandedOnce ==
  (called = "impact" /\ ~retImpact.threw) =>
    /\ NoDuplicates(retImpact.dependencyLookups)
    /\ NoDuplicates(retImpact.dependentLookups)

\* the hypotheses list of the answer handed to the parsing: result.hypotheses || []
RawList == IF argResult.hasHypotheses THEN argResult.hypotheses ELSE <<>>

\* C17: parsing repairs an imperfect entry and drops none: the parsed list is
\* as long as the generator's list and in its order, an entry without
\* confidence gets 50, and an entry without evidence, suggestedActions or
\* relatedServices gets an empty list for each; what an entry does give is kept.
C17_ParsingRepairsEntries ==
  called = "generateHypotheses" =>
    /\ Len(hypotheses) = Len(RawList)
    /\ \A k \in 1..Len(RawList) :
         LET h == RawList[k]
             parsed == hypotheses[k]
         IN /\ parsed.id[3] = k - 1
            /\ ~h.confidence.present => parsed.confidence = 50
            /\ (h.confidence.present /\ h.confidence.value # 0) =>
                 parsed.confidence = h.confidence.value
            /\ ~Falsy(h.title) => parsed.title = h.title
            /\ ~h.evidence.present => parsed.evidence = <<>>
            /\ h.evidence.present => Len(parsed.evidence) = Len(h.evidence.items)
            /\ ~h.suggestedActions.present => parsed.suggestedActions = <<>>
            /\ h.suggestedActions.present =>
                 parsed.suggestedActions = h.suggestedActions.items
            /\ ~h.relatedServices.present => parsed.relatedServices = <<>>
            /\ h.relatedServices.present =>
                 parsed.relatedServices = h.relatedServices.items

\* an entry with every optional field left out, parsed between two full ones
C17_Witness ==
  /\ called = "generateHypotheses"
  /\ Len(RawList) = 3
  /\ RawList[1] = RawFull(Num(90))
  /\ RawList[2] = RawOnlyConfidence(Missing)
  /\ RawList[3] = RawFull(Num(40))
  /\ hypotheses[2].confidence = 50
  /\ hypotheses[2].evidence = <<>>
  /\ hypotheses[3].confidence = 40

BatchOrderOf(g) ==
  SelectSeq([i \in 1..Len(events) |-> i],
            LAMBDA i : KeyOf(events[i]) = correlatedEvents[g].correlationId)

\* a batch of three events with one correlation id, exactly one of them critical
ThreeEventScenario ==
  /\ Len(events) = 3
  /\ \A i \in Positions : events[i].correlationId = "c1"
  /\ Cardinality({i \in Positions : CriticalSignal(events[i])}) = 1

\* C19: a group lists its events in batch order; the critical subset keeps
\* that order; the bundle's sibling list is the whole group, critical or not,
\* in that order; and three events with one correlation id, one of them
\* critical, make one group with a critical subset of one and three siblings.
C19_GroupOrderPreserved ==
  pc # "idle" =>
    /\ \A g \in Groups : GroupEvents(g) = BatchOrderOf(g)
    /\ (pc = "processing" /\ step # "filter") =>
         criticalEvents =
           SelectSeq(GroupEvents(current), LAMBDA i : CriticalSignal(events[i]))
    /\ systemContext # NoContext =>
         systemContext.relatedEvents = GroupEvents(current)
    /\ ThreeEventScenario =>
         /\ Len(correlatedEvents) = 1
         /\ (pc = "processing" /\ step # "filter") => Len(criticalEvents) = 1
         /\ systemContext # NoContext => Len(systemContext.relatedEvents) = 3

\* the three-event scenario with its bundle assembled, the critical event
\* neither first nor last in the batch
C19_Witness ==
  /\ ThreeEventScenario
  /\ CriticalSignal(events[2])
  /\ step = "generateHypotheses"
  /\ criticalEvents = <<2>>
  /\ systemContext.relatedEvents = <<1, 2, 3>>

\* the summary names the top hypothesis of the report, or "Unknown" at 0
SummaryNamesTopHypothesis ==
  /\ report.summary.count = Len(report.hypotheses)
  /\ report.hypotheses = <<>> =>
       report.summary.title = "Unknown" /\ report.summary.confidence = 0
  /\ report.hypotheses # <<>> =>
       /\ report.summary.title = report.hypotheses[1].title
       /\ report.summary.confidence = report.hypotheses[1].confidence

\* C20: the summary of a report names the event type, the affected service
\* under the name the impact was computed for, the title and confidence of the
\* top hypothesis and the number of hypotheses; with no hypothesis it names
\* "Unknown" at 0 without an error.  (Stated for the events that name their
\* service, in the service field or in details.service.)
C20_SummaryNamesReportFacts ==
  report.present =>
    /\ report.summary.eventType = report.eventType
    /\ affectedService # "Unknown" => report.summary.service = affectedService
    /\ SummaryNamesTopHypothesis

\* the name the triggering event gives its service: the service field when
\* present and non-empty, else details.service, else "Unknown"
ServiceNamedBy(e) ==
  IF e.service \notin {Undefined, ""} THEN e.service
  ELSE IF e.detailsService \notin {Undefined, ""} THEN e.detailsService
  ELSE "Unknown"

\* analyzeEvent has called analyzeImpact for the current group and it returned
ImpactIsComputed ==
  /\ pc = "processing"
  /\ step \in {"getRecentDiffs", "buildSystemContext", "generateHypotheses", "buildReport"}

\* C21: the name the impact is computed for, and the first entry of the
\* report's affectedServices, is the triggering event's service field when
\* present and non-empty, otherwise its details.service, otherwise "Unknown".
C21_AffectedServiceDerivation ==
  /\ ImpactIsComputed =>
       /\ affectedService = ServiceNamedBy(trigger)
       /\ impact = analyzeImpact(ServiceNamedBy(trigger), systemMap)
  /\ (pc = "processing" /\ report.present) =>
       report.affectedServices[1] = ServiceNamedBy(trigger)

\* a report for an event that names A in its service field and C in its
\* details map
C21_Witness ==
  /\ pc = "processing"
  /\ report.present
  /\ trigger.service = "A"
  /\ trigger.detailsService = "C"
  /\ report.affectedServices[1] = "A"

\* the batch position of the first event of group g, in arrival order, that
\* passes the critical filter
FirstCritical(g) ==
  CHOOSE i \in Range(GroupEvents(g)) :
    /\ CriticalSignal(events[i])
    /\ \A j \in Range(GroupEvents(g)) : CriticalSignal(events[j]) => i <= j

\* C22: per group of one processEvents invocation at most one report is built
\* and the generator is called at most once, however many critical events the
\* group holds, and the event that is analysed is the first event of the
\* group, in arrival order, that passes the critical filter.
C22_OneReportPerGroup ==
  /\ \A g \in Groups : reportsBuilt[g] <= 1 /\ generatorCalls[g] <= 1
  /\ ImpactIsComputed =>
       affectedService = ServiceNamedBy(events[FirstCritical(current)])
  /\ systemContext # NoContext =>
       systemContext.eventType = events[FirstCritical(current)].eventType
  /\ (pc = "processing" /\ report.present) =>
       report.eventType = events[FirstCritical(current)].eventType

\* a report for a group whose first event is not critical and whose two
\* critical events differ
C22_Witness ==
  /\ pc = "processing"
  /\ report.present
  /\ Len(criticalEvents) = 2
  /\ GroupEvents(current)[1] \notin Range(criticalEvents)
  /\ events[criticalEvents[1]].eventType # events[criticalEvents[2]].eventType
  /\ generatorCalls[current] = 1
  /\ reportsBuilt[current] = 1

\* the direct call of analyzeEvent is past its call of getRecentDiffs
RecentDiffsReturned == called # "analyzeImpact"

\* C23 as stated: getRecentDiffs raises nothing into the pipeline; on a cache
\* failure, a missing repository configuration, a missing token or a failed
\* API call it returns an empty list, and the analysis goes on to a report.
C23_EveryFailureGivesEmptyList ==
  /\ (RecentDiffsReturned /\ argOutcome \in RecentDiffFailures \cup {"cache_error"}) =>
       recentDiffs = <<>>
  /\ called = "analyzeEvent" => report.present

\* C23, amended: getRecentDiffs raises nothing into the pipeline; on a missing
\* repository configuration, a missing token or a failed API call it returns an
\* empty list; a cache failure counts as a cache miss, after which the lookup
\* goes on to the code host and returns the list that gives; and the analysis
\* goes on to a report.
C23_FailureGivesEmptyListCacheErrorIsMiss ==
  /\ (RecentDiffsReturned /\ argOutcome \in RecentDiffFailures) => recentDiffs = <<>>
  /\ (RecentDiffsReturned /\ argOutcome = "cache_error") => recentDiffs = argDiffs
  /\ called = "analyzeEvent" => report.present

\* a report built after the cache could not be read and the code host listed
\* a commit
C23_Witness ==
  /\ called = "analyzeEvent"
  /\ report.present
  /\ argOutcome = "cache_error"
  /\ recentDiffs # <<>>
  /\ systemContext.recentDiffs = recentDiffs

\* the positions of batch b whose event has the key `key`, in batch order
PositionsKeyed(b, key) ==
  SelectSeq([i \in 1..Len(b) |-> i], LAMBDA i : KeyOf(b[i]) = key)

\* the Map m is the grouping of batch b and of nothing else
IsGroupingOf(m, b) ==
  /\ \A g \in 1..Len(m) :
       m[g].events # <<>> /\ m[g].events = PositionsKeyed(b, m[g].correlationId)
  /\ \A i \in 1..Len(b) : \E g \in 1..Len(m) : m[g].correlationId = KeyOf(b[i])
  /\ \A g, h \in 1..Len(m) : m[g].correlationId = m[h].correlationId => g = h

\* C24: groups are private to one batch: whatever the other invocation does
\* and however the two interleave, the Map of an invocation is the grouping of
\* its own batch, so its "uncorrelated" group holds the batch's own events
\* without correlation id and no event of the other batch.
C24_GroupsPrivateToBatch ==
  \A k \in Invocations :
    invocations[k].started =>
      IsGroupingOf(invocations[k].correlatedEvents, invocations[k].events)

\* both invocations are in their loops, the first at its second group, and
\* each batch holds an event without correlation id
C24_Witness ==
  /\ \A k \in Invocations :
       /\ invocations[k].started
       /\ invocations[k].current <= Len(invocations[k].correlatedEvents)
       /\ \E i \in 1..Len(invocations[k].events) :
            KeyOf(invocations[k].events[i]) = "uncorrelated"
  /\ invocations[1].current = 2
  /\ invocations[2].current = 1
  /\ invocations[1].events # invocations[2].events

\* C25: none of the three lists analyzeImpact returns holds a service more
\* than once, also when a service is reached through several dependency paths.
C25_ImpactSetsWithoutDuplicates ==
  (called = "impact" /\ ~retImpact.threw) =>
    /\ NoDuplicates(retImpact.dependencies)
    /\ NoDuplicates(retImpact.directDependents)
    /\ NoDuplicates(retImpact.allDependents)

\* the impact of C where A depends on B and C, and B on C: A is a dependent
\* of C directly and again through B, and is listed once
C25_Witness ==
  /\ called = "impact"
  /\ argService = "C"
  /\ DOMAIN argMap = {"A", "B", "C"}
  /\ argMap["A"] = DependsOn(<<"B", "C">>)
  /\ argMap["B"] = DependsOn(<<"C">>)
  /\ argMap["C"] = NoDependsOn
  /\ retImpact.directDependents = <<"A", "B">>
  /\ retImpact.allDependents = <<"A", "B">>

\* C26: within one report, the identifiers of the hypotheses are pairwise
\* distinct.
C26_HypothesisIdsDistinct ==
  report.present =>
    \A i, j \in 1..Len(report.hypotheses) :
      report.hypotheses[i].id = report.hypotheses[j].id => i = j

\* a report with three hypotheses, two of them alike in everything but the id
C26_Witness ==
  /\ report.present
  /\ Len(report.hypotheses) = 3
  /\ \E i, j \in 1..3 :
       /\ i # j
       /\ [report.hypotheses[i] EXCEPT !.id = <<>>] = [report.hypotheses[j] EXCEPT !.id = <<>>]

RECURSIVE Concat(_)
\* the events of a sequence of batches, batch after batch
Concat(batches) ==
  IF batches = <<>> THEN <<>> ELSE Head(batches) \o Concat(Tail(batches))

\* the places of the client an event can be in: the queue, the batches in
\* flight and the events delivered
ClientPlaces == queue \o Concat(inFlight) \o delivered

TimesIn(s, e) == Cardinality({i \in 1..Len(s) : s[i] = e})

\* C27: on an enabled client every event send() accepted is, in every state, in
\* exactly one place among the queue, the batches in flight and the delivered
\* events (so a batch whose POST failed is back in the queue in full and no two
\* batches in flight share an event), and nothing else is in any of them.
C27_NoEventLostOrDuplicated ==
  config.enabled =>
    /\ \A e \in 1..sendCalls : TimesIn(ClientPlaces, e) = 1
    /\ Range(ClientPlaces) \subseteq 1..sendCalls

\* a flush started by the timer and two started by flush() overlapped: the
\* first failed and is back in the queue, the second is still in flight, the
\* third was delivered
C27_Witness ==
  /\ config.enabled
  /\ flushTimer
  /\ queue = <<1>>
  /\ inFlight = <<(<<2>>)>>
  /\ delivered = <<3>>

\* C28: once destroy() was called the interval is no longer set, and every
\* event that was in the queue at that call is eventually delivered.
C28_DestroyDeliversRemainingEvents ==
  /\ [](destroyed => ~flushTimer)
  /\ destroyed ~> (Range(queueAtDestroy) \subseteq Range(delivered))

\* C29: the queue never holds more than batchSize events, the length at which
\* send() empties it, whatever the endpoint answers and however often send() is
\* called.
C29_QueueLengthBounded == Len(queue) <= config.batchSize

\* C30: the queue holds its events in send order in every state, also after
\* failed batches were put back.
C30_QueueInSendOrder ==
  \A i, j \in 1..Len(queue) : i < j => queue[i] < queue[j]

\* C31: on an enabled client whose interval is set and on which destroy() is
\* never called, every event send() accepted is eventually delivered, given
\* that the interval keeps firing and POSTs do not fail for ever.
C31_AcceptedEventsEventuallyDelivered ==
  \A e \in 1..MaxSends :
    []~destroyed =>
      ((config.enabled /\ flushTimer /\ e <= sendCalls) ~> (e \in Range(delivered)))

\* every send() call was made on a client that is not destroyed and whose
\* batchSize was never reached, a batch failed and was put back, and all events
\* are delivered, the requeued one last
C31_Witness ==
  /\ config.enabled
  /\ flushTimer
  /\ ~destroyed
  /\ config.batchSize = DefaultBatchSize
  /\ sendCalls = MaxSends
  /\ Len(delivered) = MaxSends
  /\ delivered[MaxSends] = 1

NothingGrouped == events = <<>> /\ correlatedEvents = <<>>

\* C33: processEvents is called only for a request whose X-API-Key is one of
\* the valid keys and whose body passes the payload schema; a request with a
\* missing or invalid key is answered 401 by the middleware, a request with a
\* valid key and a JSON body failing the schema is answered 400, and in both
\* cases none of its events is grouped.
C33_OnlyValidRequestsProcessed ==
  /\ called = "processEvents" =>
       reqApiKey \in validApiKeys /\ WebhookPayloadSchema(reqBody)
  /\ (called # "none" /\ reqApiKey \notin validApiKeys) =>
       httpStatus = 401 /\ called = "authMiddleware" /\ NothingGrouped
  /\ (called \in {"webhook.post", "processEvents"} /\ reqBody.kind # "malformed"
        /\ ~WebhookPayloadSchema(reqBody)) =>
       httpStatus = 400 /\ called = "webhook.post" /\ NothingGrouped

\* a request with a valid key and two valid events was accepted and its events
\* were grouped
C33_Witness ==
  /\ called = "processEvents"
  /\ httpStatus = 200
  /\ reqApiKey = "dev-api-key"
  /\ Len(events) = 2
  /\ Len(correlatedEvents) = 2

\* the event the called method emitted passed the filter
EmittedIsCritical == Len(events) \in Range(criticalEvents)

\* C34: once the filter has run on a group containing the emitted event, an
\* event of error() or critical() is among the critical events whatever the
\* options were (so the group is not skipped), and an event of info() or
\* warn() is among them if and only if the options set priority to high.
C34_ErrorAndCriticalPassFilter ==
  called = "filter" =>
    /\ logMethod \in {"error", "critical"} => EmittedIsCritical /\ criticalEvents # <<>>
    /\ logMethod \in {"info", "warn"} => (EmittedIsCritical <=> logOptions.priority = "high")

\* error() was called with options naming level info and priority low, next to
\* an event that is not critical, and its event is the only critical one
C34_Witness ==
  /\ called = "filter"
  /\ logMethod = "error"
  /\ logOptions.level = "info"
  /\ logOptions.priority = "low"
  /\ Len(events) = 2
  /\ criticalEvents = <<2>>

\* C35: a report that was built for the current group carries the group's key
\* as its correlation id: the events' correlation id, or "uncorrelated" for
\* the group of events without one.
C35_ReportCarriesGroupKey ==
  (Running("return") /\ report.present) => report.correlationId = group.correlationId

\* C37: the service named in the evidence handed to the generator is the name
\* the impact was computed for, also when that name comes from details.service.
C37_EvidenceNamesAffectedService ==
  (Running("generateHypotheses") /\ affectedService # "Unknown") =>
    systemContext.service = affectedService

\* C36: a hypothesis for which the generator gives a confidence between 0 and
\* 100, 0 included, is parsed with exactly that confidence.
C36_GivenConfidenceKept ==
  called = "generateHypotheses" =>
    \A k \in 1..Len(RawList) :
      LET c == RawList[k].confidence
      IN (c.present /\ c.value \in 0..100) => hypotheses[k].confidence = c.value

\* loadSystemMap ran: it was called, or getSystemMap got no value from the cache
LoadRan == called = "loadSystemMap" \/ (called = "getSystemMap" /\ cacheState.get # "hit")

\* C38: a call of getSystemMap or loadSystemMap returns and never raises; when
\* the cache has no value or Redis fails, getSystemMap goes on to the file; a
\* missing, unreadable or unparseable file and a document without a services
\* map each give the default map with nothing handed to setCached; and what is
\* handed to setCached, and stored, is the file's map after it passed the
\* validation.
C38_SystemMapNeverRaises ==
  called # "none" =>
    /\ retLoad.returned /\ ~retLoad.threw
    /\ (called = "getSystemMap" /\ cacheState.get = "hit") =>
         retLoad.source = "cache" /\ retLoad.map = cacheState.map
    /\ (LoadRan /\ fileState.kind # "valid") =>
         /\ retLoad.source = "default"
         /\ retLoad.map = getDefaultSystemMap
         /\ retLoad.setCached = <<>>
    /\ (LoadRan /\ fileState.kind = "valid") =>
         retLoad.source = "file" /\ retLoad.map = fileState.map
    /\ retLoad.setCached # <<>> =>
         fileState.kind = "valid" /\ retLoad.setCached = <<fileState.map>>
    /\ retLoad.stored # <<>> => retLoad.stored = retLoad.setCached

\* Redis failed on the get and on the set, getSystemMap went on to a file that
\* holds a services map and returned that map
C38_Witness ==
  /\ called = "getSystemMap"
  /\ cacheState.get = "error"
  /\ cacheState.set = "error"
  /\ retLoad.source = "file"
  /\ retLoad.map = CycleMap
  /\ retLoad.setCached = <<CycleMap>>
  /\ retLoad.stored = <<>>

==============================================================================
